---- MODULE Spec2Model ----
(***************************************************************************)
(* Ride-hailing application: the pricing calculator (src/utils/pricing.ts) *)
(* and the ride lifecycle driven by the driver and passenger screens       *)
(* against the activeRides / completedRides / cancelledRides collections   *)
(* under firestore.rules.                                                  *)
(*                                                                         *)
(* Prices are JavaScript Numbers, i.e. IEEE-754 binary64 values.  They are *)
(* modelled bit-exactly: a Number is a record [m, e] standing for m * 2^e  *)
(* with a 53-bit significand m held as a multi-limb natural, and every     *)
(* arithmetic operation rounds its exact result to nearest, ties to even.  *)
(***************************************************************************)
EXTENDS Integers, Sequences, FiniteSets, TLC

(***************************************************************************)
(* Multi-limb naturals: little-endian sequences of limbs in 0..Base-1 with  *)
(* no leading (high) zero limb; <<>> is zero.                              *)
(***************************************************************************)
LimbBits == 7 * 2
Base == 2 ^ LimbBits

\* body applied to the value of e, e being evaluated once
Let(e, Body(_)) == CHOOSE y \in {Body(x) : x \in {e}} : TRUE

Max(a, b) == IF a >= b THEN a ELSE b
Min(a, b) == IF a <= b THEN a ELSE b

RECURSIVE IntBitLen(_)
IntBitLen(n) == IF n = 0 THEN 0 ELSE 1 + IntBitLen(n \div 2)

RECURSIVE BTrim(_)
BTrim(a) ==
    IF a = <<>> THEN <<>>
    ELSE IF a[Len(a)] = 0 THEN BTrim(SubSeq(a, 1, Len(a) - 1)) ELSE a

RECURSIVE BFromInt(_)
BFromInt(n) == IF n = 0 THEN <<>> ELSE <<n % Base>> \o BFromInt(n \div Base)

RECURSIVE BToInt(_)
BToInt(a) == IF a = <<>> THEN 0 ELSE a[1] + Base * BToInt(Tail(a))

RECURSIVE BAddC(_, _, _)
BAddC(a, b, c) ==
    IF a = <<>> /\ b = <<>> THEN (IF c = 0 THEN <<>> ELSE <<c>>)
    ELSE LET x == (IF a = <<>> THEN 0 ELSE a[1]) + (IF b = <<>> THEN 0 ELSE b[1]) + c
         IN  <<x % Base>> \o BAddC(IF a = <<>> THEN <<>> ELSE Tail(a),
                                   IF b = <<>> THEN <<>> ELSE Tail(b),
                                   x \div Base)

BAdd(a, b) == BAddC(a, b, 0)

RECURSIVE BMulSmallC(_, _, _)
BMulSmallC(a, k, c) ==
    IF a = <<>> THEN BFromInt(c)
    ELSE LET x == a[1] * k + c
         IN  <<x % Base>> \o BMulSmallC(Tail(a), k, x \div Base)

BMulSmall(a, k) == IF k = 0 THEN <<>> ELSE BMulSmallC(a, k, 0)

BShiftLimbs(a, n) == IF a = <<>> THEN <<>> ELSE [i \in 1..n |-> 0] \o a

RECURSIVE BMul(_, _)
BMul(a, b) ==
    IF b = <<>> THEN <<>>
    ELSE BAdd(BMulSmall(a, b[1]), BShiftLimbs(BMul(a, Tail(b)), 1))

\* a * 2^t
BShl(a, t) == BShiftLimbs(BMulSmall(a, 2 ^ (t % LimbBits)), t \div LimbBits)

\* quotient and remainder of a by a small divisor d
RECURSIVE BDivRec(_, _)
BDivRec(a, d) ==
    IF a = <<>> THEN [q |-> <<>>, r |-> 0]
    ELSE Let(BDivRec(Tail(a), d), LAMBDA hi :
         Let(hi.r * Base + a[1], LAMBDA cur :
             [q |-> <<cur \div d>> \o hi.q, r |-> cur % d]))

BDivSmall(a, d) == Let(BDivRec(a, d), LAMBDA x : [q |-> BTrim(x.q), r |-> x.r])

\* floor(a / 2^t), and whether any dropped bit was set
BShr(a0, t) ==
    Let(a0, LAMBDA a :
    Let(Min(t \div LimbBits, Len(a)), LAMBDA limbs :
    Let(BDivSmall(SubSeq(a, limbs + 1, Len(a)), 2 ^ (t % LimbBits)), LAMBDA x :
        [q |-> x.q,
         sticky |-> x.r # 0 \/ \E i \in 1..limbs : a[i] # 0])))

BBitLen(a) == IF a = <<>> THEN 0 ELSE LimbBits * (Len(a) - 1) + IntBitLen(a[Len(a)])

RECURSIVE BLessFrom(_, _, _)
BLessFrom(a, b, i) ==
    IF i = 0 THEN FALSE
    ELSE IF a[i] # b[i] THEN a[i] < b[i] ELSE BLessFrom(a, b, i - 1)

BLess(a, b) ==
    IF Len(a) # Len(b) THEN Len(a) < Len(b) ELSE BLessFrom(a, b, Len(a))

(***************************************************************************)
(* JavaScript Number (binary64), non-negative finite values.               *)
(***************************************************************************)
Precision == 52 + 1

DZero == [m |-> <<>>, e |-> 0]

\* The Number nearest to n / d * 2^s (round to nearest, ties to even).
RoundRat(n0, d, s0) ==
    Let(n0, LAMBDA n :
    Let(s0, LAMBDA s :
    IF n = <<>> THEN DZero
    ELSE Let(Max(0, Precision + 2 + IntBitLen(d) - BBitLen(n)), LAMBDA t :
         Let(BDivSmall(BShl(n, t), d), LAMBDA qr :
         Let(BBitLen(qr.q), LAMBDA L :
         Let(BShr(qr.q, L - (Precision + 1)), LAMBDA sh :
         Let(BDivSmall(sh.q, 2).q, LAMBDA half :
         Let(/\ sh.q[1] % 2 = 1
             /\ (sh.sticky \/ qr.r # 0 \/ half[1] % 2 = 1), LAMBDA up :
         Let(IF up THEN BAdd(half, <<1>>) ELSE half, LAMBDA m1 :
         Let(BBitLen(m1) > Precision, LAMBDA ovf :
             [m |-> IF ovf THEN BDivSmall(m1, 2).q ELSE m1,
              e |-> s - t + (L - (Precision + 1)) + 1 + (IF ovf THEN 1 ELSE 0)]
         ))))))))))

\* A decimal literal n / d read as a Number (parseFloat, Number(...)).
DLit(n, d) == RoundRat(BFromInt(n), d, 0)

DMul(x0, y0) ==
    Let(x0, LAMBDA x : Let(y0, LAMBDA y : RoundRat(BMul(x.m, y.m), 1, x.e + y.e)))

DMulSmall(x0, k) == Let(x0, LAMBDA x : RoundRat(BMulSmall(x.m, k), 1, x.e))

DDivSmall(x0, d) == Let(x0, LAMBDA x : RoundRat(x.m, d, x.e))

DAdd(x0, y0) ==
    Let(x0, LAMBDA x : Let(y0, LAMBDA y :
        IF x.m = <<>> THEN y
        ELSE IF y.m = <<>> THEN x
        ELSE Let(Min(x.e, y.e), LAMBDA emin :
                 RoundRat(BAdd(BShl(x.m, x.e - emin), BShl(y.m, y.e - emin)), 1, emin))))

DLess(x0, y0) ==
    Let(x0, LAMBDA x : Let(y0, LAMBDA y :
        IF y.m = <<>> THEN FALSE
        ELSE IF x.m = <<>> THEN TRUE
        ELSE IF x.e # y.e THEN x.e < y.e ELSE BLess(x.m, y.m)))

\* Math.max on two Numbers
MathMax(x0, y0) ==
    Let(x0, LAMBDA x : Let(y0, LAMBDA y : IF DLess(x, y) THEN y ELSE x))

\* Math.round: the integer nearest to x, a tie going towards +Infinity.
MathRound(x0) ==
    Let(x0, LAMBDA x :
        IF x.m = <<>> THEN 0
        ELSE IF x.e >= 0 THEN BToInt(BShl(x.m, x.e))
        ELSE BToInt(BShr(BAdd(x.m, BShl(<<1>>, (0 - x.e) - 1)), 0 - x.e).q))

\* Math.round(x * 100) / 100
Round2(x) == DLit(MathRound(DMulSmall(x, 100)), 100)

(***************************************************************************)
(* Strings of the peak-hour windows ("HH:mm"), as sequences of characters, *)
(* and the integer-or-NaN values parseInt yields: <<n>> is the number n,   *)
(* <<>> is NaN.                                                            *)
(***************************************************************************)
DigitChars == <<"0", "1", "2", "3", "4", "5", "6", "7", "8", "9">>

IsDigit(c) == \E i \in 1..10 : DigitChars[i] = c

DigitVal(c) == (CHOOSE i \in 1..10 : DigitChars[i] = c) - 1

NaN == <<>>

\* Number.prototype.toString().padStart(2, '0') for 0..99
PadStart2(n) ==
    IF n < 10 THEN <<"0", DigitChars[n + 1]>>
    ELSE <<DigitChars[(n \div 10) + 1], DigitChars[(n % 10) + 1]>>

\* `${HH}:${mm}`
TimeString(h, mi) == PadStart2(h) \o <<":">> \o PadStart2(mi)

\* String.prototype.split(':')
RECURSIVE SplitColon(_)
SplitColon(s) ==
    IF \A i \in 1..Len(s) : s[i] # ":" THEN <<s>>
    ELSE LET k == CHOOSE i \in 1..Len(s) : s[i] = ":" /\ \A j \in 1..(i - 1) : s[j] # ":"
         IN  <<SubSeq(s, 1, k - 1)>> \o SplitColon(SubSeq(s, k + 1, Len(s)))

\* parseInt on the longest prefix of decimal digits (no sign or blanks occur)
RECURSIVE ParseDigits(_, _)
ParseDigits(s, acc) ==
    IF s = <<>> \/ ~IsDigit(s[1]) THEN acc
    ELSE ParseDigits(Tail(s), acc * 10 + DigitVal(s[1]))

parseInt(s) == IF s = <<>> \/ ~IsDigit(s[1]) THEN NaN ELSE <<ParseDigits(s, 0)>>

\* parts[i] of a split, parseInt(undefined) being NaN
ParsePart(parts, i) == IF i <= Len(parts) THEN parseInt(parts[i]) ELSE NaN

\* hours * 60 + minutes on integer-or-NaN operands
ToMinutes(s) ==
    LET h  == ParsePart(SplitColon(s), 1)
        mi == ParsePart(SplitColon(s), 2)
    IN  IF h = NaN \/ mi = NaN THEN NaN ELSE <<h[1] * 60 + mi[1]>>

\* a >= b, a <= b with NaN comparing false
NumGe(a, b) == a # NaN /\ b # NaN /\ a[1] >= b[1]
NumLe(a, b) == a # NaN /\ b # NaN /\ a[1] <= b[1]

(***************************************************************************)
(* src/utils/pricing.ts                                                    *)
(***************************************************************************)
\* mutant: the minimum fare applied by the simple calculator
calculatePrice_Floored(distanceInMeters, pricePerKm, basePrice) ==
    LET distanceInKm == DDivSmall(distanceInMeters, 1000)
        totalPrice   == DAdd(basePrice, DMul(distanceInKm, pricePerKm))
    IN  Round2(MathMax(totalPrice, DLit(7, 1)))

calculatePrice(distanceInMeters, pricePerKm, basePrice) ==
    LET distanceInKm == DDivSmall(distanceInMeters, 1000)
        totalPrice   == DAdd(basePrice, DMul(distanceInKm, pricePerKm))
    IN  Round2(totalPrice)

\* mutant: the end of a window excluded
InPeriod_EndExclusive(period, currentHour, currentMinutes) ==
    LET currentMinutesTotal == <<currentHour * 60 + currentMinutes>>
        startMinutes == ToMinutes(period.start)
        endMinutes   == ToMinutes(period.end)
    IN  /\ NumGe(currentMinutesTotal, startMinutes)
        /\ NumLe(currentMinutesTotal, endMinutes)
        /\ currentMinutesTotal # endMinutes

\* the predicate of peakHours.some(...)
InPeriod(period, currentHour, currentMinutes) ==
    LET currentMinutesTotal == <<currentHour * 60 + currentMinutes>>
        startMinutes == ToMinutes(period.start)
        endMinutes   == ToMinutes(period.end)
    IN  NumGe(currentMinutesTotal, startMinutes) /\ NumLe(currentMinutesTotal, endMinutes)

isPeakHour(category, currentTime) ==
    \E i \in 1..Len(category.dynamicPricing.peakHours) :
        InPeriod(category.dynamicPricing.peakHours[i], currentTime.hours, currentTime.minutes)

\* finalPrice after the distance cost and the two multipliers, before the floor
PriceBeforeFloor(category, factors) ==
    LET distanceInKm == DDivSmall(factors.distance, 1000)
        p0 == DAdd(category.basePrice, DMul(distanceInKm, category.pricePerKm))
        p1 == IF isPeakHour(category, factors.currentTime)
              THEN DMul(p0, category.dynamicPricing.peakHoursMultiplier) ELSE p0
        p2 == IF factors.isRaining
              THEN DMul(p1, category.dynamicPricing.rainMultiplier) ELSE p1
    IN  p2

\* mutant: the floor applied before the multipliers
calculateDynamicPrice_FloorFirst(category, factors) ==
    LET distanceInKm == DDivSmall(factors.distance, 1000)
        p0 == MathMax(DAdd(category.basePrice, DMul(distanceInKm, category.pricePerKm)),
                      category.minPrice)
        p1 == IF isPeakHour(category, factors.currentTime)
              THEN DMul(p0, category.dynamicPricing.peakHoursMultiplier) ELSE p0
        p2 == IF factors.isRaining
              THEN DMul(p1, category.dynamicPricing.rainMultiplier) ELSE p1
    IN  Round2(p2)

\* mutant: no minimum-price floor
calculateDynamicPrice_NoFloor(category, factors) ==
    Round2(PriceBeforeFloor(category, factors))

calculateDynamicPrice(category, factors) ==
    Round2(MathMax(PriceBeforeFloor(category, factors), category.minPrice))

(***************************************************************************)
(* Ride lifecycle.  One ride document, created by the passenger as         *)
(* {status: 'pending', driverId: null}, two approved drivers on DriverHome *)
(* and the passenger on one of the two passenger screens.  Every await of  *)
(* a database call is one step: the call reaches the database (or fails on *)
(* the network), the rules decide it, and the handler runs to its next     *)
(* await.  Listener snapshots are delivered at any later time.             *)
(***************************************************************************)
VARIABLES
    activeRides,      \* the ride's document in activeRides, or NoDoc
    completedRides,   \* the document with the ride's id in completedRides, or NoDoc
    cancelledRides,   \* the documents added to cancelledRides (auto ids), in order
    isProcessing,     \* DriverHome state, per driver
    selectedRide,
    availableRides,   \* the ride's entry in the list, or NoDoc
    myRides,
    showRouteMap,
    toast,            \* the last toast shown to the driver
    handler,          \* per driver: the isProcessing-guarded handler in flight
    rejecting,        \* per driver: handleRejectRide in flight
    passenger,        \* the passenger's screen, local state and handler in flight
    acceptLog,        \* history: accept writes that reached the database
    pin,              \* pricing: the inputs, as decimals
    pout,             \* pricing: the Numbers computed
    rideId,           \* RideRequest state: the id of the ride created, or Null
    createdRides,     \* the documents handleConfirmRide added to activeRides, in order
    confirmCalls,     \* the invocations of handleConfirmRide, in order
    mountId,          \* counts the mounts of the page RideRequest
    localStorage,     \* per cache: the strings under its data key and its timestamp key
    clock,            \* Date.now() in ms, and the advances made so far
    cacheLoad,        \* per cache: the run of the effect that loads its data
    currentLocation,  \* DriverHome state: [lng, lat], or NoLocation
    locationRuns,     \* the runs of loadCurrentLocation, in order
    locationError,    \* DriverHome state
    mountedRef,       \* mountedRef.current
    distanceCalls,    \* per driver: the updateDistances call in flight
    delivered,        \* per driver: the last snapshot of the available-rides listener
    driverDoc,        \* the rated driver's document in drivers
    ratingCalls,      \* per passenger: the handleSubmitRating call in flight
    ratingLog,        \* history: the document at the start and the ratings written
    currentUser,      \* useAuth().user in this browser: a uid, or Null
    history,          \* the page RideHistory: its rides and the loadRides run in flight
    usersDoc,         \* the new account's document in users, or NoDoc
    signUpCall,       \* the signUp call of the new account
    authCallbacks,    \* the runs of the onAuthStateChanged callback, in order
    contextUser,      \* AuthProvider state: the role of user, or Null
    routeUser,        \* useAuth().user as DriverRoute sees it: uid and role
    driversStatus,    \* drivers/{uid}.status of that user, or "missing"
    driverRoute,      \* DriverRoute: mounted, pathname, loading, driverStatus
    statusChecks,     \* the runs of checkDriverStatus, in order
    guardedCalls,     \* per driver and guarded handler: its invocation in flight
    isOnline,         \* DriverHome state, per driver
    clickLog          \* per driver: what the last click on a guarded control did,
                      \* and the way the last guarded handler ended

vars == <<activeRides, completedRides, cancelledRides, isProcessing, selectedRide,
          availableRides, myRides, showRouteMap, toast, handler,
          rejecting, passenger, acceptLog, pin, pout,
          rideId, createdRides, confirmCalls, mountId,
          localStorage, clock, cacheLoad,
          currentLocation, locationRuns, locationError, mountedRef,
          distanceCalls, delivered,
          driverDoc, ratingCalls, ratingLog,
          currentUser, history,
          usersDoc, signUpCall, authCallbacks, contextUser,
          routeUser, driversStatus, driverRoute, statusChecks,
          guardedCalls, isOnline, clickLog>>

rideVars == <<activeRides, completedRides, cancelledRides, isProcessing, selectedRide,
              availableRides, myRides, showRouteMap, toast, handler,
              rejecting, passenger, acceptLog>>

priceVars == <<pin, pout>>

confirmVars == <<rideId, createdRides, confirmCalls, mountId>>

cacheVars == <<localStorage, clock, cacheLoad>>

locationVars == <<currentLocation, locationRuns, locationError, mountedRef>>

distanceVars == <<distanceCalls, delivered>>

ratingVars == <<driverDoc, ratingCalls, ratingLog>>

historyVars == <<currentUser, history>>

accountVars == <<usersDoc, signUpCall, authCallbacks, contextUser>>

routeVars == <<routeUser, driversStatus, driverRoute, statusChecks>>

guardVars == <<guardedCalls, isOnline, clickLog>>

\* the state of the rating modal, the history page, the account and the routes
screenVars == <<ratingVars, historyVars, accountVars, routeVars, guardVars>>

\* the state of the pages outside the ride's lifecycle and the calculator
pageVars == <<confirmVars, cacheVars, locationVars, distanceVars, screenVars>>

\* what the steps of one page leave alone
notConfirm == <<rideVars, priceVars, cacheVars, locationVars, distanceVars, screenVars>>
notCache == <<rideVars, priceVars, confirmVars, locationVars, distanceVars, screenVars>>
notLocation == <<rideVars, priceVars, confirmVars, cacheVars, distanceVars, screenVars>>
notScreen == <<rideVars, priceVars, confirmVars, cacheVars, locationVars, distanceVars>>
notRating == <<notScreen, historyVars, accountVars, routeVars, guardVars>>
notHistory == <<rideVars, priceVars, confirmVars, locationVars, distanceVars, ratingVars,
                accountVars, routeVars, guardVars>>
notAccount == <<notScreen, ratingVars, historyVars, routeVars, guardVars>>
notRoute == <<notScreen, ratingVars, historyVars, accountVars, guardVars>>
notGuard == <<activeRides, completedRides, cancelledRides, selectedRide, availableRides,
              myRides, showRouteMap, toast, handler, rejecting, passenger, acceptLog,
              priceVars, confirmVars, cacheVars, locationVars, distanceVars,
              ratingVars, historyVars, accountVars, routeVars>>

Drivers == {"d1", "d2"}

\* useState<[number, number] | null>(null)
NoLocation == <<>>

\* the localStorage caches, by the key of their data
Caches == {"vehicleCategories", "rideHistory"}

\* the effect is not running and has shown nothing
NoLoad == [pc |-> "idle", filterPeriod |-> "all", shown |-> <<>>, source |-> "none",
           expired |-> FALSE]
PassengerUid == "u1"
Null == "null"

\* the id addDoc gives the n-th document it creates
AutoId(n) == <<"ride1", "ride2", "ride3", "ride4">>[n]

\* bound on the documents added to cancelledRides
MaxCancelled == 1

NoDoc == [exists |-> FALSE]

NewRide == [exists |-> TRUE, userId |-> PassengerUid, status |-> "pending",
            driverId |-> Null, driver |-> Null]

Idle == [pc |-> "idle"]

\* users/{uid}.role, users/{uid}.email and drivers/{uid}.status of the actors
isPassenger(uid) == uid = PassengerUid
isAdmin(uid) == FALSE
isApprovedDriver(uid) == uid \in Drivers

\* mutant: the driverId condition of the update rule dropped
ActiveRidesUpdateAllowed_AnyDriver(uid, resource) ==
    /\ resource.exists
    /\ \/ isApprovedDriver(uid)
       \/ (isPassenger(uid) /\ resource.userId = uid)
       \/ isAdmin(uid)

\* allow update on /activeRides/{rideId}; an update of a missing document fails
ActiveRidesUpdateAllowed(uid, resource) ==
    /\ resource.exists
    /\ \/ (isApprovedDriver(uid) /\ (resource.driverId = Null \/ resource.driverId = uid))
       \/ (isPassenger(uid) /\ resource.userId = uid)
       \/ isAdmin(uid)

\* allow delete on /activeRides/{rideId}; resource.data of a missing document
\* is an evaluation error, which denies
ActiveRidesDeleteAllowed(uid, resource) ==
    /\ resource.exists
    /\ (resource.userId = uid \/ resource.driverId = uid \/ isAdmin(uid))

\* setDoc on /completedRides/{rideId}: create when missing, else an update that
\* touches more than the rating keys
CompletedRidesSetAllowed(uid, resource) ==
    IF ~resource.exists
    THEN isApprovedDriver(uid) \/ isPassenger(uid) \/ isAdmin(uid)
    ELSE isAdmin(uid)

\* allow create on /cancelledRides/{rideId}
CancelledRidesCreateAllowed(uid) ==
    isApprovedDriver(uid) \/ isPassenger(uid) \/ isAdmin(uid)

\* {...ride, status: 'completed', completedBy: uid}
CompletedCopy(ride, uid) ==
    [exists |-> TRUE, userId |-> ride.userId, status |-> "completed",
     driverId |-> ride.driverId, driver |-> ride.driver, completedBy |-> uid]

\* {...ride, status: 'cancelled', cancelledBy: by, driverId: driverId}
CancelledCopy(ride, by, driverId) ==
    [exists |-> TRUE, userId |-> ride.userId, status |-> "cancelled",
     driverId |-> driverId, driver |-> ride.driver, cancelledBy |-> by]

\* where('status','==','pending'), where('driverId','==',null)
AvailableRidesQuery(d) ==
    IF activeRides.exists /\ activeRides.status = "pending" /\ activeRides.driverId = Null
    THEN activeRides ELSE NoDoc

\* where('driverId','==',uid), where('status','in',['accepted','inProgress'])
MyRidesQuery(d) ==
    IF /\ activeRides.exists
       /\ activeRides.driverId = d
       /\ activeRides.status \in {"accepted", "inProgress"}
    THEN activeRides ELSE NoDoc

(***************************************************************************)
(* DriverHome: realtime listeners                                          *)
(***************************************************************************)
AvailableRidesSnapshot(d) ==
    /\ availableRides[d] # AvailableRidesQuery(d)
    /\ availableRides' = [availableRides EXCEPT ![d] = AvailableRidesQuery(d)]
    /\ UNCHANGED <<activeRides, completedRides, cancelledRides, isProcessing, selectedRide,
                   myRides, showRouteMap, toast, handler, rejecting,
                   passenger, acceptLog, priceVars, pageVars>>

MyRidesSnapshot(d) ==
    /\ myRides[d] # MyRidesQuery(d)
    /\ myRides' = [myRides EXCEPT ![d] = MyRidesQuery(d)]
    /\ UNCHANGED <<activeRides, completedRides, cancelledRides, isProcessing, selectedRide,
                   availableRides, showRouteMap, toast, handler, rejecting,
                   passenger, acceptLog, priceVars, pageVars>>

\* bound on the handler invocations one driver client has in flight
MaxInFlight == 1

InFlight(d) ==
    (IF handler[d].pc # "idle" THEN 1 ELSE 0) + (IF rejecting[d].pc # "idle" THEN 1 ELSE 0)

\* the finally block of the guarded handlers
Finally(d) ==
    /\ isProcessing' = [isProcessing EXCEPT ![d] = FALSE]
    /\ handler' = [handler EXCEPT ![d] = Idle]

(***************************************************************************)
(* DriverHome.handleAcceptRide                                             *)
(***************************************************************************)
\* mutant: only the existence of the re-read document checked
AcceptCheck_ExistsOnly(rideDoc) ==
    IF ~rideDoc.exists THEN "unavailable" ELSE "ok"

\* the two early returns after the re-read
AcceptCheck(rideDoc) ==
    IF ~rideDoc.exists THEN "unavailable"
    ELSE IF rideDoc.status # "pending" \/ rideDoc.driverId # Null THEN "taken"
    ELSE "ok"

handleAcceptRide_Click(d) ==
    /\ availableRides[d].exists
    /\ ~isProcessing[d]
    /\ InFlight(d) < MaxInFlight
    /\ isProcessing' = [isProcessing EXCEPT ![d] = TRUE]
    /\ handler' = [handler EXCEPT ![d] = [pc |-> "accept_getDoc", ride |-> availableRides[d]]]
    /\ toast' = [toast EXCEPT ![d] = "loading"]
    /\ UNCHANGED <<activeRides, completedRides, cancelledRides, selectedRide, availableRides,
                   myRides, showRouteMap, rejecting, passenger, acceptLog,
                   priceVars, pageVars>>

handleAcceptRide_GetDoc(d) ==
    /\ handler[d].pc = "accept_getDoc"
    /\ \E net \in BOOLEAN :
        LET c == IF net THEN AcceptCheck(activeRides) ELSE "error"
        IN  IF c = "ok"
            THEN /\ handler' = [handler EXCEPT ![d].pc = "accept_updateDoc"]
                 /\ UNCHANGED <<isProcessing, toast>>
            ELSE /\ toast' = [toast EXCEPT ![d] = c]
                 /\ Finally(d)
    /\ UNCHANGED <<activeRides, completedRides, cancelledRides, selectedRide, availableRides,
                   myRides, showRouteMap, rejecting, passenger, acceptLog,
                   priceVars, pageVars>>

handleAcceptRide_UpdateDoc(d) ==
    /\ handler[d].pc = "accept_updateDoc"
    /\ \E net \in BOOLEAN :
        LET ok == net /\ ActiveRidesUpdateAllowed(d, activeRides)
        IN  /\ acceptLog' = IF net
                            THEN Append(acceptLog,
                                        [driver |-> d, applied |-> ok,
                                         found |-> IF activeRides.exists
                                                   THEN activeRides.status ELSE "none"])
                            ELSE acceptLog
            /\ IF ok
               THEN /\ activeRides' = [activeRides EXCEPT !.status = "accepted",
                                                          !.driverId = d, !.driver = d]
                    /\ selectedRide' = [selectedRide EXCEPT ![d] =
                           [handler[d].ride EXCEPT !.status = "accepted",
                                                   !.driverId = d, !.driver = d]]
                    /\ showRouteMap' = [showRouteMap EXCEPT ![d] = TRUE]
                    /\ toast' = [toast EXCEPT ![d] = "success"]
               ELSE /\ toast' = [toast EXCEPT ![d] = "error"]
                    /\ UNCHANGED <<activeRides, selectedRide, showRouteMap>>
    /\ Finally(d)
    /\ UNCHANGED <<completedRides, cancelledRides, availableRides, myRides, rejecting,
                   passenger, priceVars, pageVars>>

(***************************************************************************)
(* DriverHome.handleStartRide                                              *)
(***************************************************************************)
\* "Iniciar Corrida" on a card of myRides: selects the ride, opens the map and
\* calls handleStartRide, which returns at once while isProcessing
handleStartRide_ClickCard(d) ==
    /\ myRides[d].exists
    /\ myRides[d].status = "accepted"
    /\ selectedRide' = [selectedRide EXCEPT ![d] = myRides[d]]
    /\ showRouteMap' = [showRouteMap EXCEPT ![d] = TRUE]
    /\ isProcessing[d] \/ InFlight(d) < MaxInFlight
    /\ IF isProcessing[d]
       THEN UNCHANGED <<isProcessing, handler, toast>>
       ELSE /\ isProcessing' = [isProcessing EXCEPT ![d] = TRUE]
            /\ handler' = [handler EXCEPT ![d] = [pc |-> "start_updateDoc", ride |-> myRides[d]]]
            /\ toast' = [toast EXCEPT ![d] = "loading"]
    /\ UNCHANGED <<activeRides, completedRides, cancelledRides, availableRides, myRides,
                   rejecting, passenger, acceptLog, priceVars, pageVars>>

\* "Iniciar Corrida" on the full-screen map
handleStartRide_ClickMap(d) ==
    /\ showRouteMap[d]
    /\ selectedRide[d].exists
    /\ selectedRide[d].status = "accepted"
    /\ ~isProcessing[d]
    /\ InFlight(d) < MaxInFlight
    /\ isProcessing' = [isProcessing EXCEPT ![d] = TRUE]
    /\ handler' = [handler EXCEPT ![d] = [pc |-> "start_updateDoc", ride |-> selectedRide[d]]]
    /\ toast' = [toast EXCEPT ![d] = "loading"]
    /\ UNCHANGED <<activeRides, completedRides, cancelledRides, selectedRide, availableRides,
                   myRides, showRouteMap, rejecting, passenger, acceptLog,
                   priceVars, pageVars>>

handleStartRide_UpdateDoc(d) ==
    /\ handler[d].pc = "start_updateDoc"
    /\ \E net \in BOOLEAN :
        IF net /\ ActiveRidesUpdateAllowed(d, activeRides)
        THEN /\ activeRides' = [activeRides EXCEPT !.status = "inProgress"]
             /\ selectedRide' = [selectedRide EXCEPT ![d] =
                    [handler[d].ride EXCEPT !.status = "inProgress"]]
             /\ showRouteMap' = [showRouteMap EXCEPT ![d] = TRUE]
             /\ toast' = [toast EXCEPT ![d] = "success"]
        ELSE /\ toast' = [toast EXCEPT ![d] = "error"]
             /\ UNCHANGED <<activeRides, selectedRide, showRouteMap>>
    /\ Finally(d)
    /\ UNCHANGED <<completedRides, cancelledRides, availableRides, myRides, rejecting,
                   passenger, acceptLog, priceVars, pageVars>>

(***************************************************************************)
(* DriverHome.handleCompleteRide                                           *)
(***************************************************************************)
handleCompleteRide_ClickCard(d) ==
    /\ myRides[d].exists
    /\ myRides[d].status = "inProgress"
    /\ ~isProcessing[d]
    /\ InFlight(d) < MaxInFlight
    /\ isProcessing' = [isProcessing EXCEPT ![d] = TRUE]
    /\ handler' = [handler EXCEPT ![d] =
           [pc |-> "complete_setDoc", ride |-> myRides[d]]]
    /\ toast' = [toast EXCEPT ![d] = "loading"]
    /\ UNCHANGED <<activeRides, completedRides, cancelledRides, selectedRide, availableRides,
                   myRides, showRouteMap, rejecting, passenger, acceptLog,
                   priceVars, pageVars>>

handleCompleteRide_ClickMap(d) ==
    /\ showRouteMap[d]
    /\ selectedRide[d].exists
    /\ selectedRide[d].status = "inProgress"
    /\ ~isProcessing[d]
    /\ InFlight(d) < MaxInFlight
    /\ isProcessing' = [isProcessing EXCEPT ![d] = TRUE]
    /\ handler' = [handler EXCEPT ![d] =
           [pc |-> "complete_setDoc", ride |-> selectedRide[d]]]
    /\ toast' = [toast EXCEPT ![d] = "loading"]
    /\ UNCHANGED <<activeRides, completedRides, cancelledRides, selectedRide, availableRides,
                   myRides, showRouteMap, rejecting, passenger, acceptLog,
                   priceVars, pageVars>>

\* mutant: the copy not awaited, the delete made whether or not it was written
handleCompleteRide_SetDoc_Unawaited(d) ==
    /\ handler[d].pc = "complete_setDoc"
    /\ \E net \in BOOLEAN :
        IF net /\ CompletedRidesSetAllowed(d, completedRides)
        THEN completedRides' = CompletedCopy(handler[d].ride, d)
        ELSE UNCHANGED completedRides
    /\ handler' = [handler EXCEPT ![d].pc = "complete_deleteDoc"]
    /\ UNCHANGED <<isProcessing, toast>>
    /\ UNCHANGED <<activeRides, cancelledRides, selectedRide, availableRides, myRides,
                   showRouteMap, rejecting, passenger, acceptLog, priceVars, pageVars>>

handleCompleteRide_SetDoc(d) ==
    /\ handler[d].pc = "complete_setDoc"
    /\ \E net \in BOOLEAN :
        IF net /\ CompletedRidesSetAllowed(d, completedRides)
        THEN /\ completedRides' = CompletedCopy(handler[d].ride, d)
             /\ handler' = [handler EXCEPT ![d].pc = "complete_deleteDoc"]
             /\ UNCHANGED <<isProcessing, toast>>
        ELSE /\ toast' = [toast EXCEPT ![d] = "error"]
             /\ Finally(d)
             /\ UNCHANGED completedRides
    /\ UNCHANGED <<activeRides, cancelledRides, selectedRide, availableRides, myRides,
                   showRouteMap, rejecting, passenger, acceptLog, priceVars, pageVars>>

handleCompleteRide_DeleteDoc(d) ==
    /\ handler[d].pc = "complete_deleteDoc"
    /\ \E net \in BOOLEAN :
        IF net /\ ActiveRidesDeleteAllowed(d, activeRides)
        THEN /\ activeRides' = NoDoc
             /\ myRides' = [myRides EXCEPT ![d] = NoDoc]
             /\ selectedRide' = [selectedRide EXCEPT ![d] = NoDoc]
             /\ showRouteMap' = [showRouteMap EXCEPT ![d] = FALSE]
             /\ toast' = [toast EXCEPT ![d] = "success"]
        ELSE /\ toast' = [toast EXCEPT ![d] = "error"]
             /\ UNCHANGED <<activeRides, myRides, selectedRide, showRouteMap>>
    /\ Finally(d)
    /\ UNCHANGED <<completedRides, cancelledRides, availableRides, rejecting, passenger,
                   acceptLog, priceVars, pageVars>>

(***************************************************************************)
(* DriverHome.handleRejectRide (not guarded by isProcessing)               *)
(***************************************************************************)
handleRejectRide_Click(d) ==
    /\ availableRides[d].exists
    /\ rejecting[d].pc = "idle"
    /\ InFlight(d) < MaxInFlight
    /\ Len(cancelledRides) < MaxCancelled
    /\ rejecting' = [rejecting EXCEPT ![d] =
           [pc |-> "reject_addDoc", ride |-> availableRides[d]]]
    /\ toast' = [toast EXCEPT ![d] = "loading"]
    /\ UNCHANGED <<activeRides, completedRides, cancelledRides, isProcessing, selectedRide,
                   availableRides, myRides, showRouteMap, handler, passenger,
                   acceptLog, priceVars, pageVars>>

handleRejectRide_AddDoc(d) ==
    /\ rejecting[d].pc = "reject_addDoc"
    /\ \E net \in BOOLEAN :
        IF net /\ CancelledRidesCreateAllowed(d)
        THEN /\ cancelledRides' = Append(cancelledRides,
                    CancelledCopy(rejecting[d].ride, "driver", d))
             /\ rejecting' = [rejecting EXCEPT ![d].pc = "reject_deleteDoc"]
             /\ UNCHANGED toast
        ELSE /\ toast' = [toast EXCEPT ![d] = "error"]
             /\ rejecting' = [rejecting EXCEPT ![d] = Idle]
             /\ UNCHANGED cancelledRides
    /\ UNCHANGED <<activeRides, completedRides, isProcessing, selectedRide, availableRides,
                   myRides, showRouteMap, handler, passenger, acceptLog,
                   priceVars, pageVars>>

handleRejectRide_DeleteDoc(d) ==
    /\ rejecting[d].pc = "reject_deleteDoc"
    /\ \E net \in BOOLEAN :
        IF net /\ ActiveRidesDeleteAllowed(d, activeRides)
        THEN /\ activeRides' = NoDoc
             /\ availableRides' = [availableRides EXCEPT ![d] = NoDoc]
             /\ IF selectedRide[d].exists
                THEN /\ selectedRide' = [selectedRide EXCEPT ![d] = NoDoc]
                     /\ showRouteMap' = [showRouteMap EXCEPT ![d] = FALSE]
                ELSE UNCHANGED <<selectedRide, showRouteMap>>
             /\ toast' = [toast EXCEPT ![d] = "success"]
        ELSE /\ toast' = [toast EXCEPT ![d] = "error"]
             /\ UNCHANGED <<activeRides, availableRides, selectedRide, showRouteMap>>
    /\ rejecting' = [rejecting EXCEPT ![d] = Idle]
    /\ UNCHANGED <<completedRides, cancelledRides, isProcessing, myRides, handler, passenger,
                   acceptLog, priceVars, pageVars>>

\* the X button of the full-screen map
CloseRouteMap(d) ==
    /\ showRouteMap[d]
    /\ selectedRide[d].exists
    /\ showRouteMap' = [showRouteMap EXCEPT ![d] = FALSE]
    /\ UNCHANGED <<activeRides, completedRides, cancelledRides, isProcessing, selectedRide,
                   availableRides, myRides, toast, handler, rejecting, passenger, acceptLog,
                   priceVars, pageVars>>

(***************************************************************************)
(* The passenger's screens: RideRequest (rideId set after the ride was     *)
(* created) and RideStatus (the ride's id in the URL).                     *)
(***************************************************************************)
\* the id of the ride's document in activeRides, which RideStatus has as rideId
RideDocId == "ride"

\* the id addDoc gave the i-th document of cancelledRides
CancelledDocId(i) == <<"cancelled1", "cancelled2", "cancelled3">>[i]

\* mutant: the cancelled copy stored under the id of the ride it copies
CancelledRides_UnderRideId(id) ==
    IF id = RideDocId /\ cancelledRides # <<>> THEN cancelledRides[1] ELSE NoDoc

\* the document doc(db, 'cancelledRides', id) denotes
CancelledRides(id) ==
    IF \E i \in DOMAIN cancelledRides : CancelledDocId(i) = id
    THEN cancelledRides[CHOOSE i \in DOMAIN cancelledRides : CancelledDocId(i) = id]
    ELSE NoDoc

\* allow read on /cancelledRides/{rideId}; resource is null for a missing document
CancelledRidesReadAllowed(uid, resource) ==
    /\ resource.exists
    /\ (resource.userId = uid \/ resource.driverId = uid \/ isAdmin(uid))

\* RideStatus: onSnapshot of activeRides/{rideId}.  For a missing document the
\* callback looks the id up in completedRides, then in cancelledRides; a read the
\* rules refuse throws out of the callback (lookup "threw"), and a client that
\* is answered from its cache gets a document that does not exist
RideStatus_Snapshot ==
    /\ passenger.page = "RideStatus"
    /\ \E cancelledDoc \in {CancelledRides(RideDocId)}, cached \in BOOLEAN :
         passenger' =
           IF activeRides.exists THEN [passenger EXCEPT !.ride = activeRides]
           ELSE IF completedRides.exists
           THEN [passenger EXCEPT !.ride = completedRides, !.lookup = "completed"]
           ELSE IF ~cached /\ ~CancelledRidesReadAllowed(PassengerUid, cancelledDoc)
           THEN [passenger EXCEPT !.lookup = "threw"]
           ELSE IF cancelledDoc.exists
           THEN [passenger EXCEPT !.ride = cancelledDoc, !.lookup = "cancelled"]
           ELSE [passenger EXCEPT !.page = "home", !.ride = NoDoc, !.lookup = "notFound",
                                  !.notice = "Corrida nao encontrada"]
    /\ passenger' # passenger
    /\ UNCHANGED <<activeRides, completedRides, cancelledRides, isProcessing, selectedRide,
                   availableRides, myRides, showRouteMap, toast, handler,
                   rejecting, acceptLog, priceVars, pageVars>>

\* a listener that reconciles: it removes an activeRides document whose copy
\* it finds in completedRides
RideRequest_Snapshot_Reconcile ==
    /\ passenger.page = "RideRequest"
    /\ IF activeRides.exists /\ completedRides.exists
       THEN /\ activeRides' = NoDoc
            /\ passenger' = [passenger EXCEPT !.ride = completedRides,
                                              !.showRatingModal = TRUE]
       ELSE /\ UNCHANGED activeRides
            /\ passenger' =
                 IF activeRides.exists
                 THEN [passenger EXCEPT !.ride = activeRides,
                                        !.driver = IF activeRides.driver # Null
                                                   THEN activeRides.driver ELSE @]
                 ELSE IF completedRides.exists
                 THEN [passenger EXCEPT !.ride = completedRides,
                                        !.showRatingModal = TRUE,
                                        !.driver = IF completedRides.driver # Null
                                                   THEN completedRides.driver ELSE @]
                 ELSE [passenger EXCEPT !.page = "home", !.ride = NoDoc, !.driver = Null,
                                        !.showRatingModal = FALSE,
                                        !.notice = "Corrida finalizada"]
            /\ passenger' # passenger
    /\ UNCHANGED <<completedRides, cancelledRides, isProcessing, selectedRide,
                   availableRides, myRides, showRouteMap, toast, handler,
                   rejecting, acceptLog, priceVars, pageVars>>

\* RideRequest: the ride monitoring listener
RideRequest_Snapshot ==
    /\ passenger.page = "RideRequest"
    /\ passenger' =
         IF activeRides.exists
         THEN [passenger EXCEPT !.ride = activeRides,
                                !.driver = IF activeRides.driver # Null
                                           THEN activeRides.driver ELSE @]
         ELSE IF completedRides.exists
         THEN [passenger EXCEPT !.ride = completedRides,
                                !.showRatingModal = TRUE,
                                !.driver = IF completedRides.driver # Null
                                           THEN completedRides.driver ELSE @]
         ELSE [passenger EXCEPT !.page = "home", !.ride = NoDoc, !.driver = Null,
                                !.showRatingModal = FALSE, !.notice = "Corrida finalizada"]
    /\ passenger' # passenger
    /\ UNCHANGED <<activeRides, completedRides, cancelledRides, isProcessing, selectedRide,
                   availableRides, myRides, showRouteMap, toast, handler,
                   rejecting, acceptLog, priceVars, pageVars>>

\* RideStatus.handleCancelRide; its button is rendered while ride.status is 'pending'
RideStatus_handleCancelRide_Click ==
    /\ passenger.page = "RideStatus"
    /\ passenger.pc = "idle"
    /\ passenger.ride.exists
    /\ passenger.ride.status = "pending"
    /\ Len(cancelledRides) < MaxCancelled
    /\ passenger' = [passenger EXCEPT !.pc = "cancel_addDoc",
                                      !.captured = passenger.ride]
    /\ UNCHANGED <<activeRides, completedRides, cancelledRides, isProcessing, selectedRide,
                   availableRides, myRides, showRouteMap, toast, handler,
                   rejecting, acceptLog, priceVars, pageVars>>

RideStatus_handleCancelRide_AddDoc ==
    /\ passenger.pc = "cancel_addDoc"
    /\ \E net \in BOOLEAN :
        IF net /\ CancelledRidesCreateAllowed(PassengerUid)
        THEN /\ cancelledRides' = Append(cancelledRides,
                    CancelledCopy(passenger.captured, "passenger",
                                  passenger.captured.driverId))
             /\ passenger' = [passenger EXCEPT !.pc = "cancel_deleteDoc"]
        ELSE /\ passenger' = [passenger EXCEPT !.pc = "idle", !.notice = "Erro ao cancelar corrida"]
             /\ UNCHANGED cancelledRides
    /\ UNCHANGED <<activeRides, completedRides, isProcessing, selectedRide, availableRides,
                   myRides, showRouteMap, toast, handler, rejecting,
                   acceptLog, priceVars, pageVars>>

RideStatus_handleCancelRide_DeleteDoc ==
    /\ passenger.pc = "cancel_deleteDoc"
    /\ \E net \in BOOLEAN :
        IF net /\ ActiveRidesDeleteAllowed(PassengerUid, activeRides)
        THEN /\ activeRides' = NoDoc
             /\ passenger' = [passenger EXCEPT !.pc = "cancel_navigate"]
        ELSE /\ passenger' = [passenger EXCEPT !.pc = "idle",
                                               !.notice = "Erro ao cancelar corrida"]
             /\ UNCHANGED activeRides
    /\ UNCHANGED <<completedRides, cancelledRides, isProcessing, selectedRide, availableRides,
                   myRides, showRouteMap, toast, handler, rejecting,
                   acceptLog, priceVars, pageVars>>

\* the statements after the awaits; the listener has had the snapshot of the
\* delete by then, which the client raises when the write is made
RideStatus_handleCancelRide_Navigate ==
    /\ passenger.pc = "cancel_navigate"
    /\ passenger' = [passenger EXCEPT !.pc = "idle", !.page = "home", !.ride = NoDoc,
                                      !.notice = "Corrida cancelada com sucesso"]
    /\ UNCHANGED <<activeRides, completedRides, cancelledRides, isProcessing, selectedRide,
                   availableRides, myRides, showRouteMap, toast, handler, rejecting,
                   acceptLog, priceVars, pageVars>>

\* RideRequest.handleCancelRide; "Cancelar corrida" is fixed at the bottom of the
\* page rendered while rideId is set, with or without a driver on the ride
RideRequest_handleCancelRide_Click ==
    /\ passenger.page = "RideRequest"
    /\ passenger.pc = "idle"
    /\ ~(passenger.showRatingModal /\ passenger.ride.exists /\ passenger.ride.status = "completed")
    /\ passenger' = [passenger EXCEPT !.pc = "request_deleteDoc"]
    /\ UNCHANGED <<activeRides, completedRides, cancelledRides, isProcessing, selectedRide,
                   availableRides, myRides, showRouteMap, toast, handler,
                   rejecting, acceptLog, priceVars, pageVars>>

RideRequest_handleCancelRide_DeleteDoc ==
    /\ passenger.pc = "request_deleteDoc"
    /\ \E net \in BOOLEAN :
        IF net /\ ActiveRidesDeleteAllowed(PassengerUid, activeRides)
        THEN /\ activeRides' = NoDoc
             /\ passenger' = [passenger EXCEPT !.pc = "idle", !.page = "home",
                                               !.ride = NoDoc, !.driver = Null]
        ELSE /\ passenger' = [passenger EXCEPT !.pc = "idle"]
             /\ UNCHANGED activeRides
    /\ UNCHANGED <<completedRides, cancelledRides, isProcessing, selectedRide, availableRides,
                   myRides, showRouteMap, toast, handler, rejecting,
                   acceptLog, priceVars, pageVars>>

(***************************************************************************)
(* Pricing: the inputs are decimals (cents, metres, tenths, HH:mm pairs);  *)
(* the category and the factors handed to the calculator are the Numbers   *)
(* and strings they denote.                                                *)
(***************************************************************************)
\* largest whole-kilometre distance among the inputs
MaxKm == 3

Distances == {0, 145, 500, 3925} \union {1000 * k : k \in 1..MaxKm}

\* peak windows as <<startHour, startMinute, endHour, endMinute>>
MorningPeak == <<7, 0, 9, 0>>
EveningPeak == <<17, 0, 19, 0>>
OvernightWindow == <<22, 0, 6, 0>>

PeakHourLists == {<<>>, <<MorningPeak>>, <<MorningPeak, EveningPeak>>, <<OvernightWindow>>}

Times == {<<6, 59>>, <<7, 0>>, <<8, 0>>, <<9, 0>>, <<9, 1>>, <<23, 30>>}

PricingInputs ==
    [basePrice : {0, 500}, pricePerKm : {100, 200}, minPrice : {0, 700},
     rainMultiplier : {12}, peakHoursMultiplier : {13, 15},
     peakHours : PeakHourLists, distance : Distances, time : Times,
     isRaining : BOOLEAN]

\* the VehicleCategory document the inputs denote
Category(p) ==
    [basePrice  |-> DLit(p.basePrice, 100),
     pricePerKm |-> DLit(p.pricePerKm, 100),
     minPrice   |-> DLit(p.minPrice, 100),
     dynamicPricing |->
        [rainMultiplier      |-> DLit(p.rainMultiplier, 10),
         peakHoursMultiplier |-> DLit(p.peakHoursMultiplier, 10),
         peakHours |-> [i \in 1..Len(p.peakHours) |->
                          [start |-> TimeString(p.peakHours[i][1], p.peakHours[i][2]),
                           end   |-> TimeString(p.peakHours[i][3], p.peakHours[i][4])]]]]

\* the PricingFactors the inputs denote; currentTime by its getHours/getMinutes
Factors(p) ==
    [isRaining |-> p.isRaining,
     currentTime |-> [hours |-> p.time[1], minutes |-> p.time[2]],
     distance |-> DLit(p.distance, 1)]

NoPrices == [priceDone |-> FALSE, dynamicDone |-> FALSE]

CalculatePrice ==
    /\ ~pout.priceDone
    /\ \E category \in {Category(pin)}, factors \in {Factors(pin)} :
         pout' = [priceDone |-> TRUE,
                  dynamicDone |-> pout.dynamicDone,
                  price |-> calculatePrice(factors.distance, category.pricePerKm,
                                           category.basePrice)]
                 @@ pout
    /\ UNCHANGED <<pin, rideVars, pageVars>>

CalculateDynamicPrice ==
    /\ ~pout.dynamicDone
    /\ \E category \in {Category(pin)}, factors \in {Factors(pin)} :
         pout' = [priceDone |-> pout.priceDone,
                  dynamicDone |-> TRUE,
                  isPeakHour |-> isPeakHour(category, factors.currentTime),
                  beforeFloor |-> PriceBeforeFloor(category, factors),
                  dynamicPrice |-> calculateDynamicPrice(category, factors)]
                 @@ pout
    /\ UNCHANGED <<pin, rideVars, pageVars>>

(***************************************************************************)
(* Specifications                                                          *)
(***************************************************************************)
NoDriverState(v) == [d \in Drivers |-> v]

RideInit(page) ==
    /\ activeRides = NewRide
    /\ completedRides = NoDoc
    /\ cancelledRides = <<>>
    /\ isProcessing = NoDriverState(FALSE)
    /\ selectedRide = NoDriverState(NoDoc)
    /\ availableRides = NoDriverState(NoDoc)
    /\ myRides = NoDriverState(NoDoc)
    /\ showRouteMap = NoDriverState(FALSE)
    /\ toast = NoDriverState("none")
    /\ handler = NoDriverState(Idle)
    /\ rejecting = NoDriverState(Idle)
    /\ passenger = [page |-> page, pc |-> "idle", ride |-> NoDoc, driver |-> Null,
                    showRatingModal |-> FALSE, captured |-> NoDoc,
                    notice |-> "none", lookup |-> "none"]
    /\ acceptLog = <<>>

\* RideRequest as mounted: no ride requested through handleConfirmRide yet
ConfirmInit ==
    /\ rideId = Null
    /\ createdRides = <<>>
    /\ confirmCalls = <<>>
    /\ mountId = 1

\* the cached-data pages before their first load, localStorage empty
CacheInit ==
    /\ localStorage = [c \in Caches |-> [data |-> <<>>, timestamp |-> <<>>]]
    /\ clock = [now |-> 0, ticks |-> 0]
    /\ cacheLoad = [c \in Caches |-> NoLoad]

\* DriverHome before its location effect has run
LocationInit ==
    /\ currentLocation = NoLocation
    /\ locationRuns = <<>>
    /\ locationError = Null
    /\ mountedRef = TRUE

\* the passengers whose completed rides had the same driver
Raters == {"u1", "u2"}

\* users/{uid}.role of the passengers who rate
RaterRole(uid) == "passenger"

\* the stars of the rating modal: [1, 2, 3, 4, 5].map(...)
Stars == {1, 3, 5}

\* totalRatings of a drivers document: <<n>>, or <<>> while the field is absent
NoField == <<>>

\* drivers/{uid} as DriverRegister writes it: rating 5.0, no totalRatings
RegisteredDriver == [rating |-> DLit(5, 1), totalRatings |-> NoField]

\* no handleSubmitRating call made by a passenger whose modal is open
RatingInit(docs) ==
    /\ driverDoc \in docs
    /\ ratingCalls = [p \in Raters |-> [pc |-> "modal", submits |-> 0]]
    /\ ratingLog = [old |-> driverDoc, ratings |-> <<>>]

\* nobody logged in, RideHistory not mounted
HistoryInit ==
    /\ currentUser = Null
    /\ history = [pc |-> "unmounted", rides |-> <<>>]

\* no account yet: nothing in users, AuthProvider mounted with nobody signed in
AccountInit ==
    /\ usersDoc = NoDoc
    /\ signUpCall = Idle
    /\ authCallbacks = <<>>
    /\ contextUser = Null

\* user: null
NoUser == [uid |-> Null, role |-> Null]

\* DriverRoute not rendered
Unmounted == [mounted |-> FALSE, pathname |-> "/", loading |-> TRUE, driverStatus |-> Null,
              lastRead |-> "none", approvedRead |-> FALSE, mountNo |-> 0]

\* the user and the drivers document of users, and DriverRoute not rendered yet
RouteInit(users, statuses) ==
    /\ routeUser \in users
    /\ driversStatus \in statuses
    /\ driverRoute = Unmounted
    /\ statusChecks = <<>>

\* the handlers of DriverHome that test isProcessing
GuardedHandlers ==
    {"handleAcceptRide", "handleStartRide", "handleCompleteRide", "toggleOnlineStatus"}

\* no guarded handler called yet, the driver offline
GuardInit ==
    /\ guardedCalls = [d \in Drivers |-> [h \in GuardedHandlers |-> Idle]]
    /\ isOnline = [d \in Drivers |-> FALSE]
    /\ clickLog = [d \in Drivers |-> [click |-> "none", exit |-> "none"]]

ScreenInit ==
    /\ RatingInit({RegisteredDriver}) /\ HistoryInit /\ AccountInit
    /\ RouteInit({NoUser}, {"missing"})
    /\ GuardInit

\* no updateDistances call made and no snapshot delivered
DistanceInit ==
    /\ distanceCalls = [d \in Drivers |-> Idle]
    /\ delivered = [d \in Drivers |-> NoDoc]

PageInit == ConfirmInit /\ CacheInit /\ LocationInit /\ DistanceInit /\ ScreenInit

\* the passenger has requested a ride on /solicitar, the page App.tsx routes
Init ==
    /\ RideInit("RideRequest")
    /\ pin = CHOOSE p \in PricingInputs : TRUE
    /\ pout = NoPrices
    /\ PageInit

DriverNext(d) ==
    \/ AvailableRidesSnapshot(d)
    \/ MyRidesSnapshot(d)
    \/ handleAcceptRide_Click(d)
    \/ handleAcceptRide_GetDoc(d)
    \/ handleAcceptRide_UpdateDoc(d)
    \/ handleStartRide_ClickCard(d)
    \/ handleStartRide_ClickMap(d)
    \/ handleStartRide_UpdateDoc(d)
    \/ handleCompleteRide_ClickCard(d)
    \/ handleCompleteRide_ClickMap(d)
    \/ handleCompleteRide_SetDoc(d)
    \/ handleCompleteRide_DeleteDoc(d)
    \/ handleRejectRide_Click(d)
    \/ handleRejectRide_AddDoc(d)
    \/ handleRejectRide_DeleteDoc(d)
    \/ CloseRouteMap(d)

RideRequestNext ==
    \/ RideRequest_Snapshot
    \/ RideRequest_handleCancelRide_Click
    \/ RideRequest_handleCancelRide_DeleteDoc

Next == (\E d \in Drivers : DriverNext(d)) \/ RideRequestNext

Spec == Init /\ [][Next]_vars

\* the RideStatus component in place of RideRequest
RideStatusInit ==
    /\ RideInit("RideStatus")
    /\ pin = CHOOSE p \in PricingInputs : TRUE
    /\ pout = NoPrices
    /\ PageInit

RideStatusNext ==
    \/ RideStatus_Snapshot
    \/ RideStatus_handleCancelRide_Click
    \/ RideStatus_handleCancelRide_AddDoc
    \/ RideStatus_handleCancelRide_DeleteDoc
    \/ RideStatus_handleCancelRide_Navigate

SpecRideStatus ==
    RideStatusInit /\ [][(\E d \in Drivers : DriverNext(d)) \/ RideStatusNext]_vars

PriceInit ==
    /\ RideInit("RideRequest")
    /\ pin \in PricingInputs
    /\ pout = NoPrices
    /\ PageInit

PriceNext == CalculatePrice \/ CalculateDynamicPrice

SpecPrice == PriceInit /\ [][PriceNext]_vars

(***************************************************************************)
(* Ride lifecycle: properties                                              *)
(***************************************************************************)
Applied == {i \in DOMAIN acceptLog : acceptLog[i].applied}

\* C1: of the accept writes that reach the ride's document, exactly one is
\* applied, namely the first; the driver of the document, once set, is that
\* write's driver and is never another's.
C1_ExactlyOneAssignment ==
    /\ Cardinality(Applied) <= 1
    /\ \A i \in DOMAIN acceptLog :
          acceptLog[i].found # "none" =>
             /\ Applied # {}
             /\ acceptLog[i].applied <=> (\A j \in 1..(i - 1) : ~acceptLog[j].applied)
    /\ \A doc \in {activeRides, completedRides} :
          doc.exists /\ doc.driverId # Null =>
             \E i \in Applied : acceptLog[i].driver = doc.driverId

\* two drivers' writes both reached the pending ride: the first was applied
\* and the second refused
C1_Witness ==
    /\ Len(acceptLog) = 2
    /\ acceptLog[1].driver # acceptLog[2].driver
    /\ acceptLog[1].found = "pending" /\ acceptLog[1].applied
    /\ acceptLog[2].found = "accepted" /\ ~acceptLog[2].applied
    /\ activeRides.exists /\ activeRides.driverId = acceptLog[1].driver

StatusRank(status) ==
    CASE status = "pending" -> 1
      [] status = "accepted" -> 2
      [] status = "inProgress" -> 3

\* C2: the status of the activeRides document only moves forward along
\* pending, accepted, inProgress; a deleted ride document is never written
\* back, and the archived documents keep their terminal status.
C2_StatusOnlyForward ==
    [][/\ activeRides.exists /\ activeRides'.exists =>
             StatusRank(activeRides'.status) >= StatusRank(activeRides.status)
       /\ ~activeRides.exists => ~activeRides'.exists
       /\ completedRides.exists =>
             completedRides'.exists /\ completedRides'.status = "completed"
       /\ \A i \in DOMAIN cancelledRides :
             /\ i \in DOMAIN cancelledRides'
             /\ cancelledRides'[i].status = "cancelled"]_vars

\* a delayed accept write reached the ride when it was already in progress,
\* and the ride is still in progress
C2_Witness ==
    /\ \E i \in DOMAIN acceptLog :
          acceptLog[i].found = "inProgress" /\ ~acceptLog[i].applied
    /\ activeRides.exists /\ activeRides.status = "inProgress"

\* the passenger's RideRequest handler leaves its delete step
RideRequestDeleteIssued ==
    passenger.pc = "request_deleteDoc" /\ passenger'.pc # "request_deleteDoc"

\* C3: whenever a terminating handler issues its activeRides delete, the copy
\* of the ride it has written is in completedRides or cancelledRides.
C3_CopyBeforeDelete ==
    [][/\ \A d \in Drivers :
             handler[d].pc = "complete_deleteDoc" /\ handler'[d].pc # "complete_deleteDoc"
                => completedRides.exists /\ completedRides.completedBy = d
       /\ \A d \in Drivers :
             rejecting[d].pc = "reject_deleteDoc" /\ rejecting'[d].pc # "reject_deleteDoc"
                => \E i \in DOMAIN cancelledRides :
                      cancelledRides[i].cancelledBy = "driver" /\ cancelledRides[i].driverId = d
       /\ RideRequestDeleteIssued
             => \E i \in DOMAIN cancelledRides : cancelledRides[i].cancelledBy = "passenger"
      ]_vars

ReadPending == activeRides.exists /\ activeRides.status = "pending" /\ activeRides.driverId = Null

\* C10: handleAcceptRide goes on to its write only when the ride it re-read
\* exists, is pending and has no driver; otherwise it ends there with no
\* write, the document and selectedRide as they were and isProcessing false.
\* The accept write is issued by no other step.
C10_WriteOnlyAfterCheck ==
    [][/\ \A d \in Drivers :
             handler[d].pc = "accept_getDoc" /\ handler'[d].pc # "accept_getDoc" =>
                IF handler'[d].pc = "accept_updateDoc"
                THEN ReadPending /\ activeRides' = activeRides
                ELSE /\ handler'[d].pc = "idle"
                     /\ activeRides' = activeRides
                     /\ acceptLog' = acceptLog
                     /\ selectedRide'[d] = selectedRide[d]
                     /\ ~isProcessing'[d]
       /\ acceptLog' # acceptLog =>
             \E d \in Drivers : /\ handler[d].pc = "accept_updateDoc"
                                /\ acceptLog'[Len(acceptLog')].driver = d
      ]_vars

\* a driver's re-read found the ride taken: nothing selected, flag reset
C10_Witness ==
    \E d \in Drivers :
        /\ toast[d] = "taken"
        /\ handler[d].pc = "idle" /\ ~isProcessing[d]
        /\ selectedRide[d] = NoDoc
        /\ activeRides.exists /\ activeRides.driverId \notin {Null, d}

(***************************************************************************)
(* Pricing: properties.  The reference values are computed exactly, in     *)
(* integers, from the decimal inputs.                                      *)
(***************************************************************************)
Minutes(h, mi) == h * 60 + mi

\* some window w of the inputs has start <= time <= end in minutes since midnight
PeakByMinutes(p) ==
    \E i \in DOMAIN p.peakHours :
        /\ Minutes(p.peakHours[i][1], p.peakHours[i][2]) <= Minutes(p.time[1], p.time[2])
        /\ Minutes(p.time[1], p.time[2]) <= Minutes(p.peakHours[i][3], p.peakHours[i][4])

\* basePrice + distance / 1000 * pricePerKm, in thousandths of a cent
ExactCost(p) == 1000 * p.basePrice + p.distance * p.pricePerKm

Scale == 1000 * 10 * 10

\* the cost times P times R, in 1 / Scale cents
ExactDynamic(p) ==
    ExactCost(p) * (IF PeakByMinutes(p) THEN p.peakHoursMultiplier ELSE 10)
                 * (IF p.isRaining THEN p.rainMultiplier ELSE 10)

ExactFloored(p) == Max(ExactDynamic(p), p.minPrice * Scale)

Cents(k) == DLit(k, 100)

\* x is a whole number of cents at most half a cent away from num / den cents
NearestCents(x, num, den) ==
    \E k \in {num \div den, num \div den + 1} :
        /\ x = Cents(k)
        /\ 2 * (IF k * den >= num THEN k * den - num ELSE num - k * den) <= den

\* num / den cents rounded half-up to a whole number of cents
HalfUpCents(num, den) == (2 * num + den) \div (2 * den)

One == DLit(1, 1)

\* round2(max(minPrice, (basePrice + distance/1000 * pricePerKm) * P * R)) on Numbers
FormulaC4(p) ==
    Let(Category(p), LAMBDA c :
        Round2(MathMax(c.minPrice,
                       DMul(DMul(DAdd(c.basePrice,
                                      DMul(DDivSmall(DLit(p.distance, 1), 1000), c.pricePerKm)),
                                 IF PeakByMinutes(p)
                                 THEN c.dynamicPricing.peakHoursMultiplier ELSE One),
                            IF p.isRaining THEN c.dynamicPricing.rainMultiplier ELSE One))))

\* C4: calculateDynamicPrice returns round2(max(minPrice, (basePrice +
\* distance/1000 * pricePerKm) * P * R)): the value of that formula on Numbers,
\* which is a whole number of cents nearest to the exact value; for distance 0
\* outside peak hours without rain it is the larger of basePrice and minPrice.
C4_DynamicPriceFormula ==
    pout.dynamicDone =>
        /\ pout.dynamicPrice = FormulaC4(pin)
        /\ NearestCents(pout.dynamicPrice, ExactFloored(pin), Scale)
        /\ pin.distance = 0 /\ ~PeakByMinutes(pin) /\ ~pin.isRaining =>
              pout.dynamicPrice = Cents(Max(pin.basePrice, pin.minPrice))

\* (5.00 + 3 * 2.00) * 1.5 * 1.2 = 19.80, above the minimum of 7.00
C4_Witness ==
    /\ pout.dynamicDone
    /\ pin.basePrice = 500 /\ pin.pricePerKm = 200 /\ pin.minPrice = 700
    /\ pin.distance = 3000 /\ pin.isRaining /\ PeakByMinutes(pin)
    /\ pin.peakHoursMultiplier = 15 /\ pin.rainMultiplier = 12
    /\ pout.dynamicPrice = Cents(1980)

\* C5: calculatePrice returns basePrice + distanceInMeters / 1000 * pricePerKm
\* as a whole number of cents nearest to the exact value; neither the minimum
\* price, the time nor the rain flag enters.
C5_SimplePriceFormula ==
    pout.priceDone => NearestCents(pout.price, ExactCost(pin), 1000)

\* 5.00 + 0.5 * 2.00 = 6.00 is returned although the minimum price is 7.00
C5_Witness ==
    /\ pout.priceDone
    /\ pin.basePrice = 500 /\ pin.pricePerKm = 200 /\ pin.distance = 500
    /\ pin.minPrice = 700 /\ pin.isRaining /\ PeakByMinutes(pin)
    /\ pout.price = Cents(600)

\* C6: the peak-hour condition holds exactly when some window has
\* start <= t <= end in minutes since midnight, both ends included; for the
\* window 07:00-09:00 the times 07:00, 08:00, 09:00 are inside and 06:59, 09:01
\* outside; the window 22:00-06:00 matches no time.
C6_PeakWindowInclusive ==
    pout.dynamicDone =>
        /\ pout.isPeakHour <=> PeakByMinutes(pin)
        /\ pin.peakHours = <<MorningPeak>> =>
              /\ pin.time \in {<<7, 0>>, <<8, 0>>, <<9, 0>>} => pout.isPeakHour
              /\ pin.time \in {<<6, 59>>, <<9, 1>>} => ~pout.isPeakHour
        /\ pin.peakHours = <<OvernightWindow>> => ~pout.isPeakHour

\* 09:00 is inside 07:00-09:00
C6_Witness ==
    /\ pout.dynamicDone
    /\ pin.peakHours = <<MorningPeak>> /\ pin.time = <<9, 0>>
    /\ pout.isPeakHour

\* C7: the dynamic price is never below minPrice; an exact price below the
\* minimum gives the minimum, e.g. base 5, perKm 2, min 7, 500 m outside
\* peak hours without rain gives 7.
C7_NeverBelowMinimum ==
    pout.dynamicDone =>
        /\ ~DLess(pout.dynamicPrice, Cents(pin.minPrice))
        /\ ExactDynamic(pin) < pin.minPrice * Scale => pout.dynamicPrice = Cents(pin.minPrice)

C7_Witness ==
    /\ pout.dynamicDone
    /\ pin.basePrice = 500 /\ pin.pricePerKm = 200 /\ pin.minPrice = 700
    /\ pin.distance = 500 /\ ~pin.isRaining /\ ~PeakByMinutes(pin)
    /\ pout.dynamicPrice = Cents(700)

\* C8: both functions return the exact price rounded half-up to the cent.
C8_RoundsHalfUp ==
    /\ pout.priceDone => pout.price = Cents(HalfUpCents(ExactCost(pin), 1000))
    /\ pout.dynamicDone => pout.dynamicPrice = Cents(HalfUpCents(ExactFloored(pin), Scale))

\* the dynamic price with the rain multiplier applied first, the peak one second
RainFirstPrice(p) ==
    Let(Category(p), LAMBDA c :
        Round2(MathMax(DMul(DMul(DAdd(c.basePrice,
                                      DMul(DDivSmall(DLit(p.distance, 1), 1000), c.pricePerKm)),
                                 c.dynamicPricing.rainMultiplier),
                            c.dynamicPricing.peakHoursMultiplier),
                       c.minPrice)))

\* C9: inside a peak window with rain, the price before the floor is the
\* cost times the peak multiplier times the rain multiplier, and the returned
\* price equals the one obtained with the two multiplications swapped.
C9_OrderIrrelevant ==
    pout.dynamicDone /\ pout.isPeakHour /\ pin.isRaining =>
        /\ pout.beforeFloor =
              Let(Category(pin), LAMBDA c :
                  DMul(DMul(DAdd(c.basePrice,
                                 DMul(DDivSmall(DLit(pin.distance, 1), 1000), c.pricePerKm)),
                            c.dynamicPricing.peakHoursMultiplier),
                       c.dynamicPricing.rainMultiplier))
        /\ pout.dynamicPrice = RainFirstPrice(pin)

(***************************************************************************)
(* Ride lifecycle: the accept race seen from the second writer             *)
(***************************************************************************)
\* two distinct drivers' accept writes reached the ride, the first finding it
\* pending: both had passed the re-read before either write landed
BothWritesLanded ==
    /\ Len(acceptLog) = 2
    /\ acceptLog[1].driver # acceptLog[2].driver
    /\ acceptLog[1].found = "pending"
    /\ acceptLog[2].found # "none"

\* C11 as stated: both writes are applied, the later one deciding the driver.
C11_LastWriteWins ==
    BothWritesLanded => acceptLog[1].applied /\ acceptLog[2].applied

\* C11 amended: an accept write that reaches a ride already assigned to another
\* driver is refused: the document stays as the earlier write left it, the
\* late driver's handler shows its error toast and does not select the ride.
C11_FirstWriteWins ==
    [][\A d \in Drivers :
          /\ handler[d].pc = "accept_updateDoc"
          /\ handler'[d].pc = "idle"
          /\ activeRides.exists
          /\ activeRides.driverId \notin {Null, d}
          => /\ activeRides' = activeRides
             /\ toast'[d] = "error"
             /\ selectedRide'[d] = selectedRide[d]
             /\ ~isProcessing'[d]]_vars

\* the late driver has been refused and shown the error; the ride is the
\* first driver's
C11_Witness ==
    /\ BothWritesLanded
    /\ ~acceptLog[2].applied
    /\ toast[acceptLog[2].driver] = "error"
    /\ selectedRide[acceptLog[2].driver] = NoDoc
    /\ toast[acceptLog[1].driver] = "success"
    /\ activeRides.exists /\ activeRides.driver = acceptLog[1].driver

\* d's accept write reached the ride and the ride is recorded for another driver
LostRace(d) ==
    /\ BothWritesLanded
    /\ \E i \in DOMAIN acceptLog : acceptLog[i].driver = d
    /\ activeRides.exists
    /\ activeRides.driverId \notin {Null, d}

\* both realtime listeners of d have delivered the current state of the ride
ListenersDelivered(d) ==
    availableRides[d] = AvailableRidesQuery(d) /\ myRides[d] = MyRidesQuery(d)

\* d's screen shows the ride as d's own: the route map over a selectedRide
PresentsAsOwn(d) == selectedRide[d].exists /\ showRouteMap[d]

\* C12: once the listeners have delivered the ride's state to the driver who
\* lost the accept race, that driver's client does not present the ride as its
\* own: no selectedRide, no route map, and the ride in neither of its lists.
C12_LoserStopsPresenting ==
    \A d \in Drivers :
        LostRace(d) /\ ListenersDelivered(d) /\ handler[d].pc = "idle" =>
            /\ ~PresentsAsOwn(d)
            /\ selectedRide[d] = NoDoc
            /\ ~availableRides[d].exists /\ ~myRides[d].exists

\* the loser had the ride in its list when its write was refused, and the
\* listener has since removed it
C12_Witness ==
    \E d \in Drivers :
        /\ LostRace(d) /\ ListenersDelivered(d) /\ handler[d].pc = "idle"
        /\ toast[d] = "error"
        /\ activeRides.status = "accepted"
        /\ \E w \in Drivers \ {d} : PresentsAsOwn(w) /\ activeRides.driverId = w

\* the "Recusar" button: one on each card of the available-rides list
DriverCancelOffered(d) == availableRides[d].exists

\* the "Cancelar corrida" button of the page RideRequest renders while rideId is set
PassengerCancelOffered ==
    /\ passenger.page = "RideRequest"
    /\ ~(passenger.showRatingModal /\ passenger.ride.exists
            /\ passenger.ride.status = "completed")

\* every client shows the current state of the ride and no handler is running
ViewsCurrent ==
    /\ passenger.ride = activeRides /\ passenger.pc = "idle"
    /\ \A d \in Drivers :
          /\ ListenersDelivered(d)
          /\ handler[d].pc = "idle" /\ rejecting[d].pc = "idle"

\* C13: while the ride is pending or accepted, the passenger and the driver
\* (any driver the ride is offered to while pending, the assigned driver once
\* accepted) are each offered an action that cancels the ride.
C13_CancelOfferedToBoth ==
    activeRides.exists /\ activeRides.status \in {"pending", "accepted"} /\ ViewsCurrent
    => /\ PassengerCancelOffered
       /\ \A d \in Drivers :
             activeRides.status = "pending" \/ activeRides.driverId = d
             => DriverCancelOffered(d)

\* the ride has a copy in an archive collection
Archived == completedRides.exists \/ cancelledRides # <<>>

\* no handler of any client is between its click and its last step
AllIdle ==
    /\ passenger.pc = "idle"
    /\ \A d \in Drivers : handler[d].pc = "idle" /\ rejecting[d].pc = "idle"

\* the ride is in activeRides and in an archive, and the handler that wrote
\* the copy is no longer about to delete
Leftover ==
    /\ activeRides.exists /\ Archived
    /\ \A d \in Drivers :
          handler[d].pc # "complete_deleteDoc" /\ rejecting[d].pc # "reject_deleteDoc"

\* C14: a delete that fails after the archive copy was written leaves the ride
\* in activeRides and in the archive; the leftover activeRides document is
\* not removed while no handler runs, and is only ever removed by the delete
\* step of a handler that a user's click started.
C14_LeftoverStays ==
    [][/\ \A d \in Drivers :
             /\ handler[d].pc = "complete_deleteDoc" /\ handler'[d].pc = "idle"
             /\ activeRides.exists /\ activeRides'.exists
             => /\ activeRides' = activeRides
                /\ completedRides'.exists /\ toast'[d] = "error"
       /\ \A d \in Drivers :
             /\ rejecting[d].pc = "reject_deleteDoc" /\ rejecting'[d].pc = "idle"
             /\ activeRides.exists /\ activeRides'.exists
             => /\ activeRides' = activeRides
                /\ cancelledRides' # <<>> /\ toast'[d] = "error"
       /\ Leftover /\ AllIdle => activeRides' = activeRides
       /\ Leftover /\ ~activeRides'.exists
          => \/ passenger.pc = "request_deleteDoc" /\ passenger'.pc = "idle"
             \/ \E d \in Drivers :
                   \/ handler[d].pc = "complete_deleteDoc" /\ handler'[d].pc = "idle"
                   \/ rejecting[d].pc = "reject_deleteDoc" /\ rejecting'[d].pc = "idle"
      ]_vars

\* the completing driver's delete failed: the ride is inProgress in activeRides
\* and completed in completedRides, with every handler back at rest
C14_Witness ==
    /\ Leftover /\ AllIdle
    /\ completedRides.exists /\ activeRides.status = "inProgress"
    /\ toast[activeRides.driverId] = "error"
    /\ passenger.ride = activeRides

(***************************************************************************)
(* RideRequest.handleConfirmRide and its createRideWithRetry               *)
(***************************************************************************)
\* invocations of handleConfirmRide followed
MaxCalls == 2
\* mounts of the page RideRequest followed
MaxMounts == 2

\* what getDoc(users/{uid}) gives: the document's role, no document, or a throw
UserDocReads == {"passenger", "driver", "missing", "resource-exhausted", "unavailable"}

\* the outcomes of a network call as the handler tells them apart: error.code
ErrorCodes == {"resource-exhausted", "unavailable"}

\* allow create on /activeRides/{rideId}
ActiveRidesCreateAllowed(uid) == isPassenger(uid)

\* error.code === 'resource-exhausted' && retryCount < 3, retrying on any code
ShouldRetry_AnyCode(code, retryCount) == retryCount < 3

\* error.code === 'resource-exhausted' && retryCount < 3, with one more retry
ShouldRetry_FourRetries(code, retryCount) ==
    code = "resource-exhausted" /\ retryCount < 4

\* error.code === 'resource-exhausted' && retryCount < 3
ShouldRetry(code, retryCount) == code = "resource-exhausted" /\ retryCount < 3

\* Math.pow(2, retryCount) * 1000
RetryDelay(retryCount) == (2 ^ retryCount) * 1000

\* the toast of handleConfirmRide's catch block
CatchToast(code) ==
    IF code = "resource-exhausted"
    THEN "Sistema temporariamente indisponivel. Tente novamente em alguns minutos."
    ELSE "Erro ao solicitar corrida. Tente novamente."

NewCall ==
    [pc |-> "getDoc", mount |-> mountId, retryCount |-> 0, attempts |-> 0,
     waits |-> <<>>, code |-> "none", toast |-> "none", created |-> Null]

\* "Confirmar corrida" is on the confirmation step, which is rendered while
\* rideId is null and is reached with origin, destination and category chosen
handleConfirmRide_Click ==
    /\ rideId = Null
    /\ Len(confirmCalls) < MaxCalls
    /\ confirmCalls' = Append(confirmCalls, NewCall)
    /\ UNCHANGED <<rideId, createdRides, mountId, notConfirm>>

\* the permission check on the user's document and the category lookup
handleConfirmRide_GetDoc(i) ==
    /\ confirmCalls[i].pc = "getDoc"
    /\ \E read \in UserDocReads, categoryFound \in BOOLEAN :
        confirmCalls' = [confirmCalls EXCEPT ![i] =
          IF read \in ErrorCodes
          THEN [@ EXCEPT !.pc = "done", !.code = read, !.toast = CatchToast(read)]
          ELSE IF read = "missing"
          THEN [@ EXCEPT !.pc = "done",
                         !.toast = "Erro ao verificar permissoes do usuario"]
          ELSE IF read # "passenger"
          THEN [@ EXCEPT !.pc = "done",
                         !.toast = "Voce nao tem permissao para solicitar corridas"]
          ELSE IF ~categoryFound
          THEN [@ EXCEPT !.pc = "done",
                         !.toast = "Categoria de veiculo nao encontrada"]
          ELSE [@ EXCEPT !.pc = "createRoute"]]
    /\ UNCHANGED <<rideId, createdRides, mountId, notConfirm>>

\* createRoute throws when the directions request fails
handleConfirmRide_CreateRoute(i) ==
    /\ confirmCalls[i].pc = "createRoute"
    /\ \E ok \in BOOLEAN :
        confirmCalls' = [confirmCalls EXCEPT ![i] =
          IF ok THEN [@ EXCEPT !.pc = "addDoc"]
          ELSE [@ EXCEPT !.pc = "done", !.toast = CatchToast("none")]]
    /\ UNCHANGED <<rideId, createdRides, mountId, notConfirm>>

\* one attempt of createRideWithRetry: addDoc, then setRideId or the catch
createRideWithRetry_AddDoc(i) ==
    /\ confirmCalls[i].pc = "addDoc"
    /\ \E net \in {"ok"} \cup ErrorCodes :
        LET code == IF net = "ok" /\ ~ActiveRidesCreateAllowed(PassengerUid)
                    THEN "permission-denied" ELSE net
            id == AutoId(Len(createdRides) + 1)
        IN IF code = "ok"
           THEN /\ createdRides' = Append(createdRides,
                      [id |-> id, userId |-> PassengerUid, status |-> "pending"])
                /\ rideId' = IF confirmCalls[i].mount = mountId THEN id ELSE rideId
                /\ confirmCalls' = [confirmCalls EXCEPT ![i] =
                      [@ EXCEPT !.pc = "done", !.attempts = @ + 1, !.code = "ok",
                                !.created = id,
                                !.toast = "Corrida solicitada com sucesso!"]]
           ELSE /\ confirmCalls' = [confirmCalls EXCEPT ![i] =
                      IF ShouldRetry(code, confirmCalls[i].retryCount)
                      THEN [@ EXCEPT !.pc = "wait", !.attempts = @ + 1, !.code = code,
                                     !.waits = Append(@, RetryDelay(confirmCalls[i].retryCount)),
                                     !.toast = "Sistema ocupado, tentando novamente..."]
                      ELSE [@ EXCEPT !.pc = "done", !.attempts = @ + 1, !.code = code,
                                     !.toast = CatchToast(code)]]
                /\ UNCHANGED <<rideId, createdRides>>
    /\ UNCHANGED <<mountId, notConfirm>>

\* the setTimeout of the retry fires: createRideWithRetry(retryCount + 1)
createRideWithRetry_Timeout(i) ==
    /\ confirmCalls[i].pc = "wait"
    /\ confirmCalls' = [confirmCalls EXCEPT ![i] =
          [@ EXCEPT !.pc = "addDoc", !.retryCount = @ + 1]]
    /\ UNCHANGED <<rideId, createdRides, mountId, notConfirm>>

\* the passenger leaves /solicitar and comes back: the component's state is
\* initialised again, rideId to null
RideRequest_Remount ==
    /\ mountId < MaxMounts
    /\ mountId' = mountId + 1
    /\ rideId' = Null
    /\ UNCHANGED <<createdRides, confirmCalls, notConfirm>>

ConfirmCallStep(i) ==
    \/ handleConfirmRide_GetDoc(i)
    \/ handleConfirmRide_CreateRoute(i)
    \/ createRideWithRetry_AddDoc(i)
    \/ createRideWithRetry_Timeout(i)

ConfirmNext ==
    \/ handleConfirmRide_Click
    \/ RideRequest_Remount
    \/ \E i \in DOMAIN confirmCalls : ConfirmCallStep(i)

\* no ride has been requested: the collections are empty, the drivers' lists too
NoRideInit ==
    /\ activeRides = NoDoc
    /\ completedRides = NoDoc
    /\ cancelledRides = <<>>
    /\ isProcessing = NoDriverState(FALSE)
    /\ selectedRide = NoDriverState(NoDoc)
    /\ availableRides = NoDriverState(NoDoc)
    /\ myRides = NoDriverState(NoDoc)
    /\ showRouteMap = NoDriverState(FALSE)
    /\ toast = NoDriverState("none")
    /\ handler = NoDriverState(Idle)
    /\ rejecting = NoDriverState(Idle)
    /\ passenger = [page |-> "RideRequest", pc |-> "idle", ride |-> NoDoc, driver |-> Null,
                    showRatingModal |-> FALSE, captured |-> NoDoc,
                    notice |-> "none", lookup |-> "none"]
    /\ acceptLog = <<>>
    /\ pin = CHOOSE p \in PricingInputs : TRUE
    /\ pout = NoPrices

\* the passenger on the confirmation step, with no ride yet
ConfirmSpecInit == NoRideInit /\ PageInit

SpecConfirm == ConfirmSpecInit /\ [][ConfirmNext]_vars

\* every awaited call settles and every timer fires
SpecConfirmFair ==
    SpecConfirm /\ \A i \in 1..MaxCalls : WF_vars(i \in DOMAIN confirmCalls /\ ConfirmCallStep(i))

\* C15: the passenger never has more than one ride document in activeRides,
\* whatever the sequence of handleConfirmRide invocations.
C15_AtMostOneActiveRide ==
    Cardinality({n \in DOMAIN createdRides :
                    createdRides[n].userId = PassengerUid}) <= 1

IsPrefix(s, t) == Len(s) <= Len(t) /\ \A n \in DOMAIN s : s[n] = t[n]

\* C16 as stated: at most 3 writes in total, after waits of 1 s and 2 s.
C16_ThreeAttempts ==
    \A i \in DOMAIN confirmCalls :
        /\ confirmCalls[i].attempts <= 3
        /\ IsPrefix(confirmCalls[i].waits, <<1000, 2000>>)

\* C16 amended: while the write keeps failing with 'resource-exhausted' it is
\* attempted at most 4 times in total (the first attempt and 3 retries), after
\* waits of 1 s, 2 s and 4 s; the fourth failure ends the invocation with the
\* error toast, and an ended invocation makes no further attempt.
C16_ThreeRetries ==
    \A i \in DOMAIN confirmCalls :
        LET c == confirmCalls[i] IN
        /\ c.attempts <= 4
        /\ IsPrefix(c.waits, <<1000, 2000, 4000>>)
        /\ c.pc = "wait" => Len(c.waits) = c.attempts /\ c.code = "resource-exhausted"
        /\ c.pc = "done" /\ c.code = "resource-exhausted" /\ c.attempts > 0
           => /\ c.attempts = 4 /\ c.waits = <<1000, 2000, 4000>>
              /\ c.toast = CatchToast("resource-exhausted")
              /\ c.created = Null

\* the write failed four times with 'resource-exhausted'
C16_Witness ==
    \E i \in DOMAIN confirmCalls :
        /\ confirmCalls[i].pc = "done" /\ confirmCalls[i].code = "resource-exhausted"
        /\ confirmCalls[i].attempts = 4
        /\ confirmCalls[i].waits = <<1000, 2000, 4000>>
        /\ createdRides = <<>> /\ rideId = Null

Ended(c) ==
    /\ c.pc = "done"
    /\ \/ c.created # Null /\ c.toast = "Corrida solicitada com sucesso!"
       \/ c.created = Null /\ c.toast \notin {"none", "Sistema ocupado, tentando novamente...",
                                              "Corrida solicitada com sucesso!"}

\* C19: createRideWithRetry retries only after 'resource-exhausted'; any other
\* error ends the invocation at once with an error toast; rideId is only ever
\* the id of a document a write created; and every invocation of
\* handleConfirmRide ends with a created ride or an error toast.
C19_RetryOnlyExhausted ==
    /\ [][\A i \in DOMAIN confirmCalls :
            LET c == confirmCalls[i]
                c2 == confirmCalls'[i]
            IN /\ c.pc = "addDoc" /\ c2.pc = "wait" => c2.code = "resource-exhausted"
               /\ c.pc = "addDoc" /\ c2 # c /\ c2.code \notin {"ok", "resource-exhausted"}
                  => c2.pc = "done" /\ c2.toast = CatchToast(c2.code) /\ c2.created = Null
               /\ c.pc = "done" => c2 = c
               /\ rideId' # rideId /\ rideId' # Null
                  => \E n \in DOMAIN createdRides' : createdRides'[n].id = rideId'
         ]_vars
    /\ [](\A i \in DOMAIN confirmCalls : confirmCalls[i].pc = "done" => Ended(confirmCalls[i]))
    /\ \A i \in 1..MaxCalls :
          [](i \in DOMAIN confirmCalls => <>(i \in DOMAIN confirmCalls /\ Ended(confirmCalls[i])))

\* one invocation ended at once on another error, one created the ride after a retry
C19_Witness ==
    \E i, j \in DOMAIN confirmCalls :
        /\ confirmCalls[i].pc = "done" /\ confirmCalls[i].code = "unavailable"
        /\ confirmCalls[i].attempts = 1 /\ confirmCalls[i].waits = <<>>
        /\ confirmCalls[j].pc = "done" /\ confirmCalls[j].created = rideId
        /\ rideId # Null /\ confirmCalls[j].attempts = 2

(***************************************************************************)
(* The localStorage caches: RideRequest.loadCategories and                 *)
(* RideHistory.loadRides with loadFromCache / saveToCache                  *)
(***************************************************************************)
\* advances of the clock followed
MaxTicks == 3

\* CACHE_DURATION of RideRequest.tsx (24 h) and of RideHistory.tsx (30 min), in ms
CACHE_DURATION(c) ==
    IF c = "vehicleCategories" THEN 24 * 60 * 60 * 1000 ELSE 30 * 60 * 1000

\* Date.now().toString(): the decimal digits of a non-negative integer
RECURSIVE toString(_)
toString(n) ==
    IF n < 10 THEN <<DigitChars[n + 1]>>
    ELSE toString(n \div 10) \o <<DigitChars[(n % 10) + 1]>>

\* Number(string): the value of a string of decimal digits, 0 for the empty
\* string, NaN for anything else
Number(s) ==
    IF \A i \in 1..Len(s) : IsDigit(s[i]) THEN <<ParseDigits(s, 0)>> ELSE NaN

\* JSON.stringify and JSON.parse of a list
JSONstringify(list) == <<"[">> \o list \o <<"]">>
JSONparse(s) == SubSeq(s, 2, Len(s) - 1)

\* Date.now() - Number(cacheTimestamp) < CACHE_DURATION, age equal to the TTL included
IsValid_Inclusive(now, cacheTimestamp, duration) ==
    LET t == Number(cacheTimestamp) IN t # NaN /\ now - t[1] <= duration

\* Date.now() - Number(cacheTimestamp) < CACHE_DURATION
IsValid(now, cacheTimestamp, duration) ==
    LET t == Number(cacheTimestamp) IN t # NaN /\ now - t[1] < duration

\* cachedData && cacheTimestamp && isValid: the parsed data, or <<"null">>
loadFromCache(c) ==
    LET cachedData == localStorage[c].data
        cacheTimestamp == localStorage[c].timestamp
    IN  IF /\ cachedData # <<>> /\ cacheTimestamp # <<>>
           /\ IsValid(clock.now, cacheTimestamp, CACHE_DURATION(c))
        THEN JSONparse(cachedData) ELSE <<"null">>

\* the two setItem calls
saveToCache(c, data) ==
    localStorage' = [localStorage EXCEPT ![c] =
        [data |-> JSONstringify(data), timestamp |-> toString(clock.now)]]

\* what getDocs gives: a throw, or the list of documents
FetchResults == {<<"error">>, <<>>, <<"a">>}

\* the steps by which the clock is advanced
Ticks == {1, CACHE_DURATION("rideHistory") - 1, CACHE_DURATION("vehicleCategories") - 1}

Tick ==
    /\ clock.ticks < MaxTicks
    /\ \E ms \in Ticks : clock' = [now |-> clock.now + ms, ticks |-> clock.ticks + 1]
    /\ UNCHANGED <<localStorage, cacheLoad, notCache>>

\* the effect runs: on mount, and for RideHistory on every change of filterPeriod
Load_Start(c) ==
    /\ cacheLoad[c].pc = "idle"
    /\ \E f \in (IF c = "rideHistory" THEN {"all", "week"} ELSE {"all"}) :
         cacheLoad' = [cacheLoad EXCEPT ![c] =
             [@ EXCEPT !.pc = "readCache", !.filterPeriod = f]]
    /\ UNCHANGED <<localStorage, clock, notCache>>

\* the cache is consulted: its data is shown, or the database is asked
Load_ReadCache(c) ==
    /\ cacheLoad[c].pc = "readCache"
    /\ \E cached \in {loadFromCache(c)} :
         cacheLoad' = [cacheLoad EXCEPT ![c] =
            IF cached # <<"null">> /\ cacheLoad[c].filterPeriod = "all"
            THEN [@ EXCEPT !.pc = "idle", !.shown = cached, !.source = "cache",
                           !.expired = FALSE]
            ELSE [@ EXCEPT !.pc = "getDocs",
                           !.expired = localStorage[c].data # <<>>
                                       /\ localStorage[c].timestamp # <<>>
                                       /\ cached = <<"null">>]]
    /\ UNCHANGED <<localStorage, clock, notCache>>

\* getDocs returns: loadCategories leaves the cache alone on an empty
\* collection, loadRides saves only when filterPeriod is 'all'
Load_GetDocs(c) ==
    /\ cacheLoad[c].pc = "getDocs"
    /\ \E docs \in FetchResults :
         IF docs = <<"error">>
         THEN /\ cacheLoad' = [cacheLoad EXCEPT ![c] =
                     [@ EXCEPT !.pc = "idle", !.source = "error"]]
              /\ UNCHANGED localStorage
         ELSE /\ cacheLoad' = [cacheLoad EXCEPT ![c] =
                     [@ EXCEPT !.pc = "idle", !.shown = docs, !.source = "db"]]
              /\ IF c = "vehicleCategories"
                 THEN IF docs = <<>> THEN UNCHANGED localStorage
                      ELSE saveToCache(c, docs)
                 ELSE IF cacheLoad[c].filterPeriod = "all" THEN saveToCache(c, docs)
                      ELSE UNCHANGED localStorage
    /\ UNCHANGED <<clock, notCache>>

CacheNext ==
    \/ Tick
    \/ \E c \in Caches : Load_Start(c) \/ Load_ReadCache(c) \/ Load_GetDocs(c)

CacheSpecInit == NoRideInit /\ PageInit

SpecCache == CacheSpecInit /\ [][CacheNext]_vars

\* the entry of cache c: both strings present, and its age in ms
HasEntry(c) == localStorage[c].data # <<>> /\ localStorage[c].timestamp # <<>>
Age(c) == clock.now - ParseDigits(localStorage[c].timestamp, 0)

\* a run of the effect consults the cache: it serves it only from an entry
\* younger than the TTL, and never serves one of age >= TTL
ServedOnlyFresh(c) ==
    cacheLoad[c].pc = "readCache" =>
        /\ cacheLoad'[c].source = "cache" /\ cacheLoad'[c].pc = "idle"
           => /\ HasEntry(c) /\ Age(c) < CACHE_DURATION(c)
              /\ cacheLoad'[c].shown = JSONparse(localStorage[c].data)
              /\ localStorage' = localStorage
        /\ HasEntry(c) /\ Age(c) >= CACHE_DURATION(c) /\ cacheLoad'[c] # cacheLoad[c]
           => cacheLoad'[c].pc = "getDocs" /\ cacheLoad'[c].expired

\* data and timestamp of cache c are rewritten in this step, from what was read
Rewritten(c) ==
    localStorage'[c] = [data |-> JSONstringify(cacheLoad'[c].shown),
                        timestamp |-> toString(clock.now)]

\* C17 as stated: the cache is served only from a fresh entry, and every run
\* that is not served and reads the data from the database rewrites the
\* cache data and timestamp.
C17_AlwaysRewritten ==
    [][\A c \in Caches :
          /\ ServedOnlyFresh(c)
          /\ cacheLoad[c].pc = "getDocs" /\ cacheLoad'[c].source = "db"
             /\ cacheLoad'[c].pc = "idle"
             => Rewritten(c)]_vars

\* C17 amended: the cache is served only from an entry with data and timestamp
\* whose age is below the TTL (the ride history only with filterPeriod 'all'),
\* never from one of age >= TTL; a run that is not served rewrites data and
\* timestamp together exactly when the read succeeds and, for the categories,
\* returns at least one document, for the ride history, filterPeriod is 'all';
\* otherwise it leaves the cache as it was.
C17_RewrittenWhenSaved ==
    [][\A c \in Caches :
          /\ ServedOnlyFresh(c)
          /\ cacheLoad[c].pc = "getDocs" /\ cacheLoad'[c].pc = "idle"
             => IF /\ cacheLoad'[c].source = "db"
                   /\ c = "vehicleCategories" => cacheLoad'[c].shown # <<>>
                   /\ c = "rideHistory" => cacheLoad[c].filterPeriod = "all"
                THEN Rewritten(c)
                ELSE localStorage' = localStorage]_vars

\* an entry of age exactly the TTL was passed over and both caches were
\* rewritten from the database, the ride history's at that moment
C17_Witness ==
    /\ cacheLoad["rideHistory"].pc = "idle" /\ cacheLoad["rideHistory"].expired
    /\ cacheLoad["rideHistory"].source = "db"
    /\ clock.now = CACHE_DURATION("rideHistory")
    /\ localStorage["rideHistory"].timestamp = toString(clock.now)
    /\ cacheLoad["vehicleCategories"].source = "cache"

(***************************************************************************)
(* DriverHome.getLocationWithFallback and loadCurrentLocation; coordinates *)
(* in units of 1e-4 degree                                                 *)
(***************************************************************************)
\* runs of loadCurrentLocation followed
MaxRuns == 2

\* navigator.geolocation: absent, an error callback, or a position
GeolocationOutcomes ==
    {[kind |-> "unsupported"], [kind |-> "error"],
     [kind |-> "position", coords |-> [longitude |-> -489000, latitude |-> -163000]]}

\* getDoc(users/{uid}): a throw, no document, or the document's currentLocation
\* field (NoLocation when absent)
UserLocationReads ==
    {[kind |-> "throws"], [kind |-> "missing"],
     [kind |-> "doc", currentLocation |-> NoLocation],
     [kind |-> "doc", currentLocation |-> <<-489100, -163100>>]}

\* return [-16.3285, -48.9535]
DefaultLocation == <<-163285, -489535>>

Returned(coords) == [threw |-> FALSE, coords |-> coords]
Threw == [threw |-> TRUE, coords |-> NoLocation]

\* getCurrentLocation: resolves [longitude, latitude] or rejects
getCurrentLocation(geo) ==
    IF geo.kind = "position"
    THEN Returned(<<geo.coords.longitude, geo.coords.latitude>>)
    ELSE Threw

\* the fallback of getLocationWithFallback, its getDoc outside any try
FirestoreFallback_Uncaught(user, read) ==
    IF user # Null /\ read.kind = "throws" THEN Threw
    ELSE IF user # Null /\ read.kind = "doc" /\ read.currentLocation # NoLocation
    THEN Returned(read.currentLocation)
    ELSE Returned(DefaultLocation)

\* the fallback of getLocationWithFallback: the stored location, else the default
FirestoreFallback(user, read) ==
    IF user # Null /\ read.kind = "doc" /\ read.currentLocation # NoLocation
    THEN Returned(read.currentLocation)
    ELSE Returned(DefaultLocation)

\* the effect calls loadCurrentLocation on mount and every 30 s
loadCurrentLocation_Start ==
    /\ mountedRef
    /\ Len(locationRuns) < MaxRuns
    /\ \E user \in {"d1", Null} :
         locationRuns' = Append(locationRuns,
             [pc |-> "getCurrentLocation", user |-> user, geo |-> [kind |-> "none"],
              read |-> [kind |-> "none"], result |-> Returned(NoLocation),
              attempts |-> 1])
    /\ UNCHANGED <<currentLocation, locationError, mountedRef, notLocation>>

\* what loadCurrentLocation does with the outcome of getLocationWithFallback
Settle(i, run) ==
    /\ locationRuns' = [locationRuns EXCEPT ![i] = run]
    /\ IF run.pc # "done" \/ ~mountedRef
       THEN UNCHANGED <<currentLocation, locationError>>
       ELSE IF ~run.result.threw
       THEN currentLocation' = run.result.coords /\ locationError' = Null
       ELSE /\ locationError' = "Erro ao obter localizacao"
            /\ currentLocation' = IF run.attempts >= 3 THEN DefaultLocation
                                  ELSE currentLocation

\* getCurrentLocation settles
getLocationWithFallback_Geolocation(i) ==
    /\ locationRuns[i].pc = "getCurrentLocation"
    /\ \E geo \in GeolocationOutcomes :
         LET coords == getCurrentLocation(geo)
             run == [locationRuns[i] EXCEPT !.geo = geo]
         IN  IF ~coords.threw
             THEN Settle(i, [run EXCEPT !.pc = "done", !.result = coords])
             ELSE IF run.user # Null
             THEN Settle(i, [run EXCEPT !.pc = "getDoc"])
             ELSE Settle(i, [run EXCEPT !.pc = "done",
                                        !.result = FirestoreFallback(Null, run.read)])
    /\ UNCHANGED <<mountedRef, notLocation>>

\* getDoc of the user's document settles
getLocationWithFallback_GetDoc(i) ==
    /\ locationRuns[i].pc = "getDoc"
    /\ \E read \in UserLocationReads :
         Settle(i, [locationRuns[i] EXCEPT
                       !.pc = "done", !.read = read,
                       !.result = FirestoreFallback(locationRuns[i].user, read)])
    /\ UNCHANGED <<mountedRef, notLocation>>

\* DriverHome unmounts: the cleanup clears the interval
DriverHome_Unmount ==
    /\ mountedRef
    /\ mountedRef' = FALSE
    /\ UNCHANGED <<currentLocation, locationRuns, locationError, notLocation>>

LocationRunStep(i) ==
    getLocationWithFallback_Geolocation(i) \/ getLocationWithFallback_GetDoc(i)

LocationNext ==
    \/ loadCurrentLocation_Start
    \/ DriverHome_Unmount
    \/ \E i \in DOMAIN locationRuns : LocationRunStep(i)

LocationSpecInit == NoRideInit /\ PageInit

SpecLocation == LocationSpecInit /\ [][LocationNext]_vars

\* the effect runs after mount, and the geolocation callback (timeout 5 s)
\* and getDoc settle
SpecLocationFair ==
    /\ SpecLocation
    /\ WF_vars(Len(locationRuns) = 0 /\ loadCurrentLocation_Start)
    /\ \A i \in 1..MaxRuns : WF_vars(i \in DOMAIN locationRuns /\ LocationRunStep(i))

\* what the claim says getLocationWithFallback returns for a finished run
ClaimedLocation(run) ==
    IF run.geo.kind = "position"
    THEN <<run.geo.coords.longitude, run.geo.coords.latitude>>
    ELSE IF run.read.kind = "doc" /\ run.read.currentLocation # NoLocation
    THEN run.read.currentLocation
    ELSE DefaultLocation

\* C18: getLocationWithFallback never fails and returns the device position,
\* else the stored currentLocation, else the default; a run that finishes
\* while DriverHome is mounted sets currentLocation to it; and currentLocation
\* is eventually set while DriverHome stays mounted.
C18_LocationAlwaysSet ==
    /\ [](\A i \in DOMAIN locationRuns :
            locationRuns[i].pc = "done"
            => /\ ~locationRuns[i].result.threw
               /\ locationRuns[i].result.coords = ClaimedLocation(locationRuns[i])
               /\ locationRuns[i].result.coords # NoLocation)
    /\ [][\A i \in DOMAIN locationRuns :
            locationRuns[i].pc # "done" /\ locationRuns'[i].pc = "done" /\ mountedRef
            => /\ currentLocation' = locationRuns'[i].result.coords
               /\ locationError' = Null]_vars
    /\ <>(currentLocation # NoLocation \/ ~mountedRef)

\* geolocation and the read of the user's document both failed, and
\* currentLocation is the default
C18_Witness ==
    \E i \in DOMAIN locationRuns :
        /\ locationRuns[i].pc = "done"
        /\ locationRuns[i].geo.kind = "error" /\ locationRuns[i].read.kind = "throws"
        /\ mountedRef /\ currentLocation = DefaultLocation
        /\ \E j \in DOMAIN locationRuns :
              /\ locationRuns[j].pc = "done"
              /\ locationRuns[j].read.kind = "doc"
              /\ locationRuns[j].result.coords = locationRuns[j].read.currentLocation

(***************************************************************************)
(* DriverHome: the available-rides listener and updateDistances            *)
(***************************************************************************)
\* onSnapshot(availableRidesQuery, ...): setAvailableRides(rides)
AvailableRides_onSnapshot(d) ==
    /\ delivered[d] # AvailableRidesQuery(d)
    /\ delivered' = [delivered EXCEPT ![d] = AvailableRidesQuery(d)]
    /\ availableRides' = [availableRides EXCEPT ![d] = AvailableRidesQuery(d)]
    /\ UNCHANGED <<activeRides, completedRides, cancelledRides, isProcessing, selectedRide,
                   myRides, showRouteMap, toast, handler, rejecting,
                   passenger, acceptLog, priceVars, confirmVars, cacheVars,
                   locationVars, screenVars, distanceCalls>>

\* the debounce timer fires: updateDistances starts on the availableRides of
\* its closure
updateDistances_Start(d) ==
    /\ currentLocation # NoLocation
    /\ availableRides[d].exists
    /\ distanceCalls[d].pc = "idle"
    /\ distanceCalls' = [distanceCalls EXCEPT ![d] =
           [pc |-> "calculateDistance", ride |-> availableRides[d]]]
    /\ UNCHANGED <<rideVars, priceVars, confirmVars, cacheVars, locationVars, screenVars,
                 delivered>>

\* {...ride, distanceToPickup, durationToPickup, distance, duration}
WithDistances(ride) == [distanceToPickup |-> 1200] @@ ride

\* the calculateDistance calls have settled: setAvailableRides(updatedRides)
updateDistances_Done(d) ==
    /\ distanceCalls[d].pc = "calculateDistance"
    /\ \E calculated \in BOOLEAN :
         availableRides' = [availableRides EXCEPT ![d] =
             IF calculated THEN WithDistances(distanceCalls[d].ride)
             ELSE distanceCalls[d].ride]
    /\ distanceCalls' = [distanceCalls EXCEPT ![d] = Idle]
    /\ UNCHANGED <<activeRides, completedRides, cancelledRides, isProcessing, selectedRide,
                   myRides, showRouteMap, toast, handler, rejecting,
                   passenger, acceptLog, priceVars, confirmVars, cacheVars,
                   locationVars, screenVars, delivered>>

DistancesDriverNext(d) ==
    \/ AvailableRides_onSnapshot(d)
    \/ updateDistances_Start(d)
    \/ updateDistances_Done(d)
    \/ handleAcceptRide_Click(d)
    \/ handleAcceptRide_GetDoc(d)
    \/ handleAcceptRide_UpdateDoc(d)

DistancesNext ==
    \/ \E d \in Drivers : DistancesDriverNext(d)
    \/ RideRequest_handleCancelRide_Click
    \/ RideRequest_handleCancelRide_DeleteDoc

\* a pending ride exists and the drivers' location is known
DistancesInit ==
    /\ RideInit("RideRequest")
    /\ pin = CHOOSE p \in PricingInputs : TRUE
    /\ pout = NoPrices
    /\ ConfirmInit /\ CacheInit /\ DistanceInit /\ ScreenInit
    /\ currentLocation = DefaultLocation
    /\ locationRuns = <<>>
    /\ locationError = Null
    /\ mountedRef = TRUE

SpecDistances == DistancesInit /\ [][DistancesNext]_vars

\* a list entry without the fields updateDistances adds
WithoutDistances(ride) ==
    IF ride.exists
    THEN [f \in {"exists", "userId", "status", "driverId", "driver"} |-> ride[f]]
    ELSE ride

\* C20: the driver's availableRides is the most recently delivered snapshot,
\* possibly annotated with distances: a ride a snapshot removed is not put
\* back by an updateDistances call that started earlier and completes later.
C20_ListIsLastSnapshot ==
    \A d \in Drivers : WithoutDistances(availableRides[d]) = delivered[d]

\* C21: every write a lifecycle handler is about to issue, for the actor the
\* UI lets perform it, is permitted by the rules: the accept of a free pending
\* ride, the driverArrived and start updates, the completedRides copy and the
\* delete by the assigned driver, the cancelledRides copy and the delete by a
\* driver rejecting a pending ride, and the owning passenger's delete.
C21_WritesPermitted ==
    /\ \A d \in Drivers :
          /\ handler[d].pc = "accept_updateDoc" /\ AcceptCheck(activeRides) = "ok"
             => ActiveRidesUpdateAllowed(d, activeRides)
          /\ activeRides.exists /\ activeRides.driverId = d
             => ActiveRidesUpdateAllowed(d, activeRides)
          /\ handler[d].pc = "complete_setDoc" /\ ~completedRides.exists
             => CompletedRidesSetAllowed(d, completedRides)
          /\ handler[d].pc = "complete_deleteDoc" /\ activeRides.exists
             /\ activeRides.driverId = d
             => ActiveRidesDeleteAllowed(d, activeRides)
          /\ rejecting[d].pc = "reject_addDoc" => CancelledRidesCreateAllowed(d)
          /\ rejecting[d].pc = "reject_deleteDoc" /\ AcceptCheck(activeRides) = "ok"
             => ActiveRidesDeleteAllowed(d, activeRides)
    /\ passenger.pc = "request_deleteDoc" /\ activeRides.exists
       => ActiveRidesDeleteAllowed(PassengerUid, activeRides)

(***************************************************************************)
(* The rating of a driver.  src/pages/RideRequest.tsx, handleSubmitRating: *)
(* each passenger of Raters has a completed ride of the same driver and    *)
(* the rating modal open.  Every await is one step.                        *)
(***************************************************************************)
\* most submissions one passenger makes
MaxSubmits == 2

\* drivers documents rated before: rating 4 after one rating, 4.5 after two
DriverDocs ==
    {RegisteredDriver,
     [rating |-> DLit(4, 1), totalRatings |-> <<1>>],
     [rating |-> DLit(45, 10), totalRatings |-> <<2>>]}

\* firestore.rules, completedRides update by the passenger who owns the ride
CompletedRidesRatingAllowed(uid, owner, affectedKeys) ==
    owner = uid /\ affectedKeys \subseteq {"rating", "ratingComment", "ratedAt"}

\* firestore.rules, drivers update
DriversUpdateAllowed(uid, driverId, affectedKeys) ==
    \/ driverId = uid
    \/ RaterRole(uid) = "passenger" /\ affectedKeys \subseteq {"rating", "totalRatings"}

\* driverData.totalRatings || 0
TotalRatingsOr0(doc) == IF doc.totalRatings = NoField THEN 0 ELSE doc.totalRatings[1]

\* driverData.rating || 5
RatingOr5(doc) == IF doc.rating = DZero THEN DLit(5, 1) ELSE doc.rating

\* mutant: the average taken over the ratings and the registration default
NewRating_CountsDefault(currentRating, totalRatings, rating) ==
    DDivSmall(DAdd(DMulSmall(currentRating, totalRatings + 1), DLit(rating, 1)),
              totalRatings + 2)

\* ((currentRating * totalRatings) + rating) / (totalRatings + 1)
NewRating(currentRating, totalRatings, rating) ==
    DDivSmall(DAdd(DMulSmall(currentRating, totalRatings), DLit(rating, 1)),
              totalRatings + 1)

\* the statements after the inner try: the modal closes, the success toast
RatingThanks(p) ==
    [pc |-> "done", submits |-> ratingCalls[p].submits, toast |-> "success"]

handleSubmitRating_Click(p) ==
    /\ ratingCalls[p].pc = "modal"
    /\ ratingCalls[p].submits < MaxSubmits
    /\ \E star \in Stars :
         ratingCalls' = [ratingCalls EXCEPT ![p] =
             [pc |-> "updateDoc_ride", submits |-> @.submits + 1, rating |-> star]]
    /\ UNCHANGED <<driverDoc, ratingLog, notRating>>

\* await updateDoc(rideRef, {rating, ratingComment, ratedAt})
handleSubmitRating_UpdateRide(p) ==
    /\ ratingCalls[p].pc = "updateDoc_ride"
    /\ \E ok \in BOOLEAN :
         ratingCalls' = [ratingCalls EXCEPT ![p] =
             IF ok /\ CompletedRidesRatingAllowed(p, p, {"rating", "ratingComment", "ratedAt"})
             THEN [@ EXCEPT !.pc = "getDoc"]
             ELSE [pc |-> "modal", submits |-> @.submits, toast |-> "error"]]
    /\ UNCHANGED <<driverDoc, ratingLog, notRating>>

\* const driverDoc = await getDoc(driverRef)
handleSubmitRating_GetDoc(p) ==
    /\ ratingCalls[p].pc = "getDoc"
    /\ \E ok \in BOOLEAN :
         ratingCalls' = [ratingCalls EXCEPT ![p] =
             IF ok
             THEN [pc |-> "updateDoc_driver", submits |-> @.submits, rating |-> @.rating,
                   totalRatings |-> TotalRatingsOr0(driverDoc),
                   currentRating |-> RatingOr5(driverDoc)]
             ELSE RatingThanks(p)]
    /\ UNCHANGED <<driverDoc, ratingLog, notRating>>

\* await updateDoc(driverRef, {rating: newRating, totalRatings: totalRatings + 1})
handleSubmitRating_UpdateDriver(p) ==
    /\ ratingCalls[p].pc = "updateDoc_driver"
    /\ \E ok \in BOOLEAN, call \in {ratingCalls[p]} :
         /\ IF ok /\ DriversUpdateAllowed(p, "d1", {"rating", "totalRatings"})
            THEN /\ driverDoc' =
                      [rating |-> NewRating(call.currentRating, call.totalRatings,
                                            call.rating),
                       totalRatings |-> <<call.totalRatings + 1>>]
                 /\ ratingLog' = [ratingLog EXCEPT !.ratings = Append(@, call.rating)]
            ELSE UNCHANGED <<driverDoc, ratingLog>>
         /\ ratingCalls' = [ratingCalls EXCEPT ![p] = RatingThanks(p)]
    /\ UNCHANGED notRating

RatingNext ==
    \E p \in Raters :
        \/ handleSubmitRating_Click(p)
        \/ handleSubmitRating_UpdateRide(p)
        \/ handleSubmitRating_GetDoc(p)
        \/ handleSubmitRating_UpdateDriver(p)

RatingSpecInit ==
    /\ NoRideInit
    /\ ConfirmInit /\ CacheInit /\ LocationInit /\ DistanceInit
    /\ RatingInit(DriverDocs) /\ HistoryInit /\ AccountInit
    /\ RouteInit({NoUser}, {"missing"})
    /\ GuardInit

SpecRating == RatingSpecInit /\ [][RatingNext]_vars

RECURSIVE SumOf(_)
SumOf(seq) == IF seq = <<>> THEN 0 ELSE Head(seq) + SumOf(Tail(seq))

\* the Number nearest to (old rating * old totalRatings + the ratings) / (old totalRatings + k)
AverageWith(old, ratings) ==
    Let(TotalRatingsOr0(old), LAMBDA n :
    Let(IF n = 0 THEN <<>> ELSE BMulSmall(old.rating.m, n), LAMBDA scaled :
        IF old.rating.e < 0
        THEN RoundRat(BAdd(scaled, BShl(BFromInt(SumOf(ratings)), 0 - old.rating.e)),
                      n + Len(ratings), old.rating.e)
        ELSE RoundRat(BAdd(BShl(scaled, old.rating.e), BFromInt(SumOf(ratings))),
                      n + Len(ratings), 0)))

NoRatingInFlight == \A p \in Raters : ratingCalls[p].pc \in {"modal", "done"}

\* C22: once the submissions are over, totalRatings has grown by the number of
\* ratings written to the driver and rating is their average with the old ones
C22_NoRatingLost ==
    NoRatingInFlight /\ ratingLog.ratings # <<>> =>
        /\ driverDoc.totalRatings =
              <<TotalRatingsOr0(ratingLog.old) + Len(ratingLog.ratings)>>
        /\ driverDoc.rating = AverageWith(ratingLog.old, ratingLog.ratings)

(***************************************************************************)
(* Cancellation seen from RideStatus: the passenger on RideStatus, the     *)
(* drivers accepting or rejecting the ride.                                *)
(***************************************************************************)
CancelledNext ==
    \/ \E d \in Drivers :
          \/ AvailableRidesSnapshot(d)
          \/ handleAcceptRide_Click(d)
          \/ handleAcceptRide_GetDoc(d)
          \/ handleAcceptRide_UpdateDoc(d)
          \/ handleRejectRide_Click(d)
          \/ handleRejectRide_AddDoc(d)
          \/ handleRejectRide_DeleteDoc(d)
    \/ RideStatusNext

SpecCancelled == RideStatusInit /\ [][CancelledNext]_vars

\* the ride left activeRides through a cancellation: its copy is in cancelledRides
CancelledAndGone ==
    ~activeRides.exists /\ ~completedRides.exists /\ cancelledRides # <<>>

\* C23: a RideStatus listener that has handled the snapshot of a cancelled
\* ride's deletion found the copy in cancelledRides and shows it as cancelled
C23_CancelledRideShown ==
    CancelledAndGone /\ passenger.lookup # "none" =>
        /\ passenger.lookup = "cancelled"
        /\ passenger.page = "RideStatus" =>
              passenger.ride.exists /\ passenger.ride.status = "cancelled"

\* a step of the RideRequest listener: the only step that changes the
\* passenger's state and leaves the handler in flight where it was
RideRequestListenerStep ==
    /\ passenger.page = "RideRequest"
    /\ passenger' # passenger
    /\ passenger'.pc = passenger.pc

\* C24: the deleteDoc of handleCompleteRide removes the ride only after its
\* copy with status 'completed' is in completedRides; a listener that finds the
\* ride gone and the copy there shows the rating modal, and it sends the
\* passenger home with 'Corrida finalizada' only when there is no copy
C24_CompletedBeforeDeleted ==
    [][/\ \A d \in Drivers :
             /\ handler[d].pc = "complete_deleteDoc" /\ handler'[d].pc = "idle"
             /\ activeRides.exists /\ ~activeRides'.exists
             => /\ completedRides.exists /\ completedRides.status = "completed"
                /\ completedRides' = completedRides
       /\ RideRequestListenerStep /\ ~activeRides.exists /\ completedRides.exists
          => /\ passenger'.page = "RideRequest"
             /\ passenger'.showRatingModal
             /\ passenger'.ride = completedRides /\ passenger'.ride.status = "completed"
       /\ RideRequestListenerStep /\ passenger'.notice = "Corrida finalizada"
          /\ passenger.notice # "Corrida finalizada"
          => ~activeRides.exists /\ ~completedRides.exists
      ]_vars

\* the driver completed the ride and the passenger has the rating modal
C24_Witness ==
    /\ ~activeRides.exists
    /\ completedRides.exists /\ completedRides.status = "completed"
    /\ \E d \in Drivers : toast[d] = "success" /\ completedRides.completedBy = d
    /\ passenger.page = "RideRequest" /\ passenger.showRatingModal
    /\ passenger.ride = completedRides

(***************************************************************************)
(* RideHistory in one browser used by two accounts.  src/pages/            *)
(* RideHistory.tsx, loadRides, with the cache of the section above (its    *)
(* keys 'rideHistory' and 'rideHistoryTimestamp' carry no uid) and the     *)
(* logins and logouts of AuthContext, which leave localStorage alone.      *)
(***************************************************************************)
HistoryUsers == {"u1", "u2"}

\* the userId field of the rides in completedRides and cancelledRides
UserIdOf(ride) == IF ride = "a" THEN "u1" ELSE "u2"

\* where('userId', '==', user.uid) over the two collections
RidesWhereUserId(uid) == IF uid = "u1" THEN <<"a">> ELSE <<"b">>

\* signIn resolves, onAuthStateChanged sets the user
AuthContext_signIn(uid) ==
    /\ currentUser = Null
    /\ currentUser' = uid
    /\ UNCHANGED <<history, cacheVars, notHistory>>

\* logout: signOut(auth), setUser(null); the pages of the account unmount
AuthContext_logout ==
    /\ currentUser # Null
    /\ history.pc \in {"unmounted", "idle"}
    /\ currentUser' = Null
    /\ history' = [pc |-> "unmounted", rides |-> <<>>]
    /\ UNCHANGED <<cacheVars, notHistory>>

\* the page mounts and its effect runs loadRides with filterPeriod 'all'
RideHistory_Mount ==
    /\ currentUser # Null
    /\ history.pc = "unmounted"
    /\ history' = [pc |-> "readCache", rides |-> <<>>, filterPeriod |-> "all"]
    /\ UNCHANGED <<currentUser, cacheVars, notHistory>>

\* setFilterPeriod: the effect runs again
RideHistory_setFilterPeriod(f) ==
    /\ history.pc = "idle"
    /\ f # history.filterPeriod
    /\ history' = [history EXCEPT !.pc = "readCache", !.filterPeriod = f]
    /\ UNCHANGED <<currentUser, cacheVars, notHistory>>

\* const cachedRides = loadFromCache(); if (cachedRides && filterPeriod === 'all')
loadRides_ReadCache ==
    /\ history.pc = "readCache"
    /\ \E cachedRides \in {loadFromCache("rideHistory")} :
         history' =
            IF cachedRides # <<"null">> /\ history.filterPeriod = "all"
            THEN [history EXCEPT !.pc = "idle", !.rides = cachedRides]
            ELSE [history EXCEPT !.pc = "getDocs"]
    /\ UNCHANGED <<currentUser, cacheVars, notHistory>>

\* the two queries return or throw; setRides(allRides), saveToCache without filter
loadRides_GetDocs ==
    /\ history.pc = "getDocs"
    /\ \E ok \in BOOLEAN :
         IF ok
         THEN /\ history' = [history EXCEPT !.pc = "idle",
                                            !.rides = RidesWhereUserId(currentUser)]
              /\ IF history.filterPeriod = "all"
                 THEN saveToCache("rideHistory", RidesWhereUserId(currentUser))
                 ELSE UNCHANGED localStorage
         ELSE /\ history' = [history EXCEPT !.pc = "idle"]
              /\ UNCHANGED localStorage
    /\ UNCHANGED <<currentUser, clock, cacheLoad, notHistory>>

HistoryNext ==
    \/ \E uid \in HistoryUsers : AuthContext_signIn(uid)
    \/ AuthContext_logout
    \/ RideHistory_Mount
    \/ \E f \in {"all", "week"} : RideHistory_setFilterPeriod(f)
    \/ loadRides_ReadCache
    \/ loadRides_GetDocs
    \/ Tick

SpecHistory == CacheSpecInit /\ [][HistoryNext]_vars

\* C25: the rides RideHistory shows belong to the user who is logged in
C25_OnlyOwnRides ==
    currentUser # Null =>
        \A i \in 1..Len(history.rides) : UserIdOf(history.rides[i]) = currentUser

(***************************************************************************)
(* The price of a requested ride.  src/pages/RideRequest.tsx,              *)
(* handleConfirmRide: newRide.price, next to the dynamic price of the same *)
(* category, distance and time.                                            *)
(***************************************************************************)
\* const price = calculatePrice(routeInfo.properties.distance,
\*     selectedVehicle.pricePerKm, selectedVehicle.basePrice);  price: price
handleConfirmRide_Price ==
    /\ "newRidePrice" \notin DOMAIN pout
    /\ \E selectedVehicle \in {Category(pin)}, routeInfo \in {Factors(pin)} :
         pout' = [newRidePrice |-> calculatePrice(routeInfo.distance,
                                                  selectedVehicle.pricePerKm,
                                                  selectedVehicle.basePrice)] @@ pout
    /\ UNCHANGED <<pin, rideVars, pageVars>>

RidePriceNext == handleConfirmRide_Price \/ CalculateDynamicPrice

SpecRidePrice == PriceInit /\ [][RidePriceNext]_vars

\* C26: the price put on the ride is the dynamic price of the category for
\* the route's distance at the time of the request, without rain
C26_StoredPriceIsDynamic ==
    "newRidePrice" \in DOMAIN pout /\ pout.dynamicDone /\ ~pin.isRaining =>
        pout.newRidePrice = pout.dynamicPrice

(***************************************************************************)
(* Registration.  AuthContext (src/unnamed/part_004): signUp and the       *)
(* onAuthStateChanged callback, which runs when the account is created and *)
(* again whenever the page is loaded with the account signed in.  Both     *)
(* write users/{uid} with setDoc, which replaces the document.             *)
(***************************************************************************)
\* most runs of the callback
MaxCallbacks == 3

\* allow create, update on /users/{userId}
UsersWriteAllowed(uid, userId) == userId = uid

\* role: isDriver ? 'driver' : 'passenger'
RoleOf(isDriver) == IF isDriver THEN "driver" ELSE "passenger"

\* mutant: the callback's default document merged under the fields stored
DefaultUserDoc_Merged(stored) ==
    IF stored.exists THEN stored ELSE [exists |-> TRUE, role |-> "passenger"]

\* setDoc(doc(db, 'users', uid), userData) of the callback: role 'passenger'
DefaultUserDoc(stored) == [exists |-> TRUE, role |-> "passenger"]

signUp_Call ==
    /\ signUpCall.pc = "idle"
    /\ \E isDriver \in BOOLEAN :
         signUpCall' = [pc |-> "createUser", isDriver |-> isDriver]
    /\ UNCHANGED <<usersDoc, authCallbacks, contextUser, notAccount>>

\* await createUserWithEmailAndPassword: on success the account is signed in
\* and the auth listener is called
signUp_CreateUser ==
    /\ signUpCall.pc = "createUser"
    /\ \E ok \in BOOLEAN :
         IF ok
         THEN /\ signUpCall' = [signUpCall EXCEPT !.pc = "setDoc"]
              /\ authCallbacks' = Append(authCallbacks, [pc |-> "getDoc"])
         ELSE /\ signUpCall' = [signUpCall EXCEPT !.pc = "threw"]
              /\ UNCHANGED authCallbacks
    /\ UNCHANGED <<usersDoc, contextUser, notAccount>>

\* await setDoc(doc(db, 'users', uid), userData); setUser(userData)
signUp_SetDoc ==
    /\ signUpCall.pc = "setDoc"
    /\ \E ok \in BOOLEAN :
         IF ok /\ UsersWriteAllowed("u1", "u1")
         THEN /\ usersDoc' = [exists |-> TRUE, role |-> RoleOf(signUpCall.isDriver)]
              /\ contextUser' = RoleOf(signUpCall.isDriver)
              /\ signUpCall' = [signUpCall EXCEPT !.pc = "done"]
         ELSE /\ signUpCall' = [signUpCall EXCEPT !.pc = "threw"]
              /\ UNCHANGED <<usersDoc, contextUser>>
    /\ UNCHANGED <<authCallbacks, notAccount>>

\* the page is loaded again with the account signed in
AuthProvider_Reload ==
    /\ signUpCall.pc \in {"done", "threw"}
    /\ authCallbacks # <<>>
    /\ Len(authCallbacks) < MaxCallbacks
    /\ authCallbacks' = Append(authCallbacks, [pc |-> "getDoc"])
    /\ contextUser' = Null
    /\ UNCHANGED <<usersDoc, signUpCall, notAccount>>

\* const userDoc = await getDoc(doc(db, 'users', uid))
onAuthStateChanged_GetDoc(i) ==
    /\ authCallbacks[i].pc = "getDoc"
    /\ \E ok \in BOOLEAN :
         IF ~ok
         THEN /\ authCallbacks' = [authCallbacks EXCEPT ![i].pc = "done"]
              /\ UNCHANGED contextUser
         ELSE IF usersDoc.exists
         THEN /\ authCallbacks' = [authCallbacks EXCEPT ![i].pc = "done"]
              /\ contextUser' = usersDoc.role
         ELSE /\ authCallbacks' = [authCallbacks EXCEPT ![i].pc = "setDoc"]
              /\ UNCHANGED contextUser
    /\ UNCHANGED <<usersDoc, signUpCall, notAccount>>

\* await setDoc(doc(db, 'users', uid), userData); setUser(userData)
onAuthStateChanged_SetDoc(i) ==
    /\ authCallbacks[i].pc = "setDoc"
    /\ \E ok \in BOOLEAN :
         IF ok /\ UsersWriteAllowed("u1", "u1")
         THEN /\ usersDoc' = DefaultUserDoc(usersDoc)
              /\ contextUser' = "passenger"
         ELSE UNCHANGED <<usersDoc, contextUser>>
    /\ authCallbacks' = [authCallbacks EXCEPT ![i].pc = "done"]
    /\ UNCHANGED <<signUpCall, notAccount>>

AccountNext ==
    \/ signUp_Call
    \/ signUp_CreateUser
    \/ signUp_SetDoc
    \/ AuthProvider_Reload
    \/ \E i \in DOMAIN authCallbacks :
          onAuthStateChanged_GetDoc(i) \/ onAuthStateChanged_SetDoc(i)

SpecAccount == CacheSpecInit /\ [][AccountNext]_vars

\* C27: once signUp with isDriver = true has completed, the account's users
\* document has role 'driver'
C27_DriverRoleStored ==
    signUpCall.pc = "done" /\ signUpCall.isDriver =>
        usersDoc.exists /\ usersDoc.role = "driver"

(***************************************************************************)
(* DriverRoute.  src/App.tsx: the guard around /driver/home and            *)
(* /driver/pending.  AuthProvider renders it once the auth state is known; *)
(* its effect runs checkDriverStatus on mount and on every change of user. *)
(* Both paths render DriverRoute in the same place, so a redirect between  *)
(* them keeps its state.                                                   *)
(***************************************************************************)
\* most runs of checkDriverStatus
MaxChecks == 3

RouteUsers ==
    {NoUser, [uid |-> "d1", role |-> "driver"], [uid |-> "u1", role |-> "passenger"]}

DriverStatuses == {"approved", "pending", "rejected"}

DriverPaths == {"/driver/home", "/driver/pending"}

\* what DriverRoute returns
DriverRoute_Render(r, u) ==
    IF r.loading THEN "Carregando..."
    ELSE IF u.uid = Null \/ u.role # "driver" THEN "Navigate /"
    ELSE IF r.driverStatus = "approved" /\ r.pathname = "/driver/pending"
    THEN "Navigate /driver/home"
    ELSE IF r.driverStatus # "approved" /\ r.pathname # "/driver/pending"
    THEN "Navigate /driver/pending"
    ELSE "children"

\* checkDriverStatus up to its await: if (user?.uid) getDoc(...)
checkDriverStatus_Start(u, mountNo) ==
    IF u.uid # Null
    THEN Append(statusChecks, [pc |-> "getDoc", mountNo |-> mountNo])
    ELSE statusChecks

\* the user opens one of the two paths
DriverRoute_Mount(path) ==
    /\ ~driverRoute.mounted
    /\ Len(statusChecks) < MaxChecks
    /\ driverRoute' = [Unmounted EXCEPT !.mounted = TRUE, !.pathname = path,
                                        !.mountNo = driverRoute.mountNo + 1]
    /\ statusChecks' = checkDriverStatus_Start(routeUser, driverRoute.mountNo + 1)
    /\ UNCHANGED <<routeUser, driversStatus, notRoute>>

\* getDoc returns or throws; setDriverStatus if the document exists, setLoading(false)
checkDriverStatus_GetDoc(i) ==
    /\ statusChecks[i].pc = "getDoc"
    /\ statusChecks' = [statusChecks EXCEPT ![i].pc = "done"]
    /\ \E ok \in BOOLEAN :
         driverRoute' =
            IF ~driverRoute.mounted \/ statusChecks[i].mountNo # driverRoute.mountNo
            THEN driverRoute
            ELSE [driverRoute EXCEPT
                    !.loading = FALSE,
                    !.driverStatus = IF ok /\ driversStatus # "missing"
                                     THEN driversStatus ELSE @,
                    !.lastRead = IF ok THEN driversStatus ELSE "unreadable",
                    !.approvedRead = @ \/ (ok /\ driversStatus = "approved")]
    /\ UNCHANGED <<routeUser, driversStatus, notRoute>>

\* setUser with the same account again (signIn and the auth listener both set
\* it): user is a new object and the effect runs again
DriverRoute_UserSetAgain ==
    /\ driverRoute.mounted
    /\ routeUser.uid # Null
    /\ Len(statusChecks) < MaxChecks
    /\ statusChecks' = checkDriverStatus_Start(routeUser, driverRoute.mountNo)
    /\ UNCHANGED <<routeUser, driversStatus, driverRoute, notRoute>>

\* logout: setUser(null); the effect runs and returns at once
DriverRoute_UserSignedOut ==
    /\ driverRoute.mounted
    /\ routeUser.uid # Null
    /\ routeUser' = NoUser
    /\ UNCHANGED <<driversStatus, driverRoute, statusChecks, notRoute>>

\* the admin approves or rejects the driver, or removes the document
Admin_SetDriverStatus(status) ==
    /\ routeUser.role = "driver"
    /\ status # driversStatus
    /\ driversStatus' = status
    /\ UNCHANGED <<routeUser, driverRoute, statusChecks, notRoute>>

\* <Navigate to=... replace />
DriverRoute_Navigate ==
    /\ driverRoute.mounted
    /\ \E out \in {DriverRoute_Render(driverRoute, routeUser)} :
         /\ out \in {"Navigate /", "Navigate /driver/home", "Navigate /driver/pending"}
         /\ driverRoute' =
              IF out = "Navigate /"
              THEN [driverRoute EXCEPT !.mounted = FALSE, !.pathname = "/"]
              ELSE [driverRoute EXCEPT !.pathname =
                        IF out = "Navigate /driver/home" THEN "/driver/home"
                        ELSE "/driver/pending"]
    /\ UNCHANGED <<routeUser, driversStatus, statusChecks, notRoute>>

RouteNext ==
    \/ \E path \in DriverPaths : DriverRoute_Mount(path)
    \/ \E i \in DOMAIN statusChecks : checkDriverStatus_GetDoc(i)
    \/ DriverRoute_UserSetAgain
    \/ DriverRoute_UserSignedOut
    \/ \E status \in DriverStatuses \union {"missing"} : Admin_SetDriverStatus(status)
    \/ DriverRoute_Navigate

RouteSpecInit ==
    /\ NoRideInit
    /\ ConfirmInit /\ CacheInit /\ LocationInit /\ DistanceInit
    /\ RatingInit({RegisteredDriver}) /\ HistoryInit /\ AccountInit
    /\ RouteInit(RouteUsers, DriverStatuses \union {"missing"})
    /\ GuardInit

SpecRoute == RouteSpecInit /\ [][RouteNext]_vars

\* what DriverRoute returns now
Rendered == DriverRoute_Render(driverRoute, routeUser)

\* DriverHome is rendered only for a driver whose document was read as approved
HomeOnlyForApproved ==
    driverRoute.mounted /\ Rendered = "children" /\ driverRoute.pathname = "/driver/home" =>
        /\ routeUser.uid # Null /\ routeUser.role = "driver"
        /\ driverRoute.approvedRead

\* a driver whose document was last read as not approved, missing or unreadable
\* is sent to /driver/pending
OthersSentToPending ==
    /\ driverRoute.mounted /\ ~driverRoute.loading
    /\ routeUser.role = "driver"
    /\ driverRoute.lastRead \in {"pending", "rejected", "missing", "unreadable"}
    /\ driverRoute.pathname = "/driver/home"
    => Rendered = "Navigate /driver/pending"

\* a logged-in user who is not a driver is sent to '/'
NonDriverSentHome ==
    /\ driverRoute.mounted /\ ~driverRoute.loading
    /\ routeUser.uid # Null /\ routeUser.role # "driver"
    => Rendered = "Navigate /"

\* C28: DriverRoute renders DriverHome only for an approved driver, sends the
\* other drivers to /driver/pending and the users who are not drivers to '/'
C28_DriverHomeGuarded ==
    HomeOnlyForApproved /\ OthersSentToPending /\ NonDriverSentHome

\* getDoc settles and a rendered <Navigate> takes effect
SpecRouteFair ==
    /\ SpecRoute
    /\ \A i \in 1..MaxChecks : WF_vars(i \in DOMAIN statusChecks /\ checkDriverStatus_GetDoc(i))
    /\ WF_vars(DriverRoute_Navigate)

\* C29: a mounted DriverRoute leaves its loading state, and with nobody
\* logged in it goes on to redirect to '/'
C29_LeavesLoading ==
    /\ (driverRoute.mounted ~> (~driverRoute.loading \/ ~driverRoute.mounted))
    /\ (driverRoute.mounted /\ routeUser.uid = Null ~> ~driverRoute.mounted)

\* the same of a DriverRoute mounted with a user logged in
LeavesLoadingWithUser ==
    driverRoute.mounted /\ statusChecks # <<>>
        /\ statusChecks[Len(statusChecks)].mountNo = driverRoute.mountNo
    ~> (~driverRoute.loading \/ ~driverRoute.mounted)

(***************************************************************************)
(* The isProcessing guard of DriverHome.  handleAcceptRide,                *)
(* handleStartRide, handleCompleteRide and toggleOnlineStatus, each with   *)
(* an invocation of its own, on every driver client; any of their controls *)
(* may be clicked at any time.  A click is handled after the render that   *)
(* followed the previous state change, so the handler tests the current    *)
(* isProcessing.  Every await is one step and may fail.                    *)
(***************************************************************************)
\* mutant: the test of isProcessing left out
Blocked_Never(flag) == FALSE

\* if (isProcessing) return;
Blocked(flag) == flag

\* the first await of each handler
FirstAwait(h) ==
    IF h = "handleAcceptRide" THEN "getDoc"
    ELSE IF h = "handleCompleteRide" THEN "setDoc"
    ELSE "updateDoc"

\* a control of handler h is clicked: the handler returns at once, or sets
\* isProcessing and runs to its first await
Guarded_Click(d, h) ==
    IF Blocked(isProcessing[d])
    THEN /\ clickLog' = [clickLog EXCEPT ![d].click = "returned"]
         /\ UNCHANGED <<isProcessing, guardedCalls>>
    ELSE /\ clickLog' = [clickLog EXCEPT ![d].click = "started"]
         /\ guardedCalls[d][h].pc = "idle"
         /\ isProcessing' = [isProcessing EXCEPT ![d] = TRUE]
         /\ guardedCalls' = [guardedCalls EXCEPT ![d][h] = [pc |-> FirstAwait(h)]]

\* the finally block: setIsProcessing(false)
Guarded_Finally(d, h, exit) ==
    /\ isProcessing' = [isProcessing EXCEPT ![d] = FALSE]
    /\ guardedCalls' = [guardedCalls EXCEPT ![d][h] = Idle]
    /\ clickLog' = [clickLog EXCEPT ![d].exit = exit]

Guarded_Call(d, h) ==
    /\ Guarded_Click(d, h)
    /\ UNCHANGED <<isOnline, notGuard>>

\* handleAcceptRide: getDoc, the two early returns, updateDoc
Guarded_Accept_GetDoc(d) ==
    /\ guardedCalls[d]["handleAcceptRide"].pc = "getDoc"
    /\ \E found \in {"ok", "missing", "taken", "threw"} :
         IF found = "ok"
         THEN /\ guardedCalls' = [guardedCalls EXCEPT ![d]["handleAcceptRide"].pc = "updateDoc"]
              /\ UNCHANGED <<isProcessing, clickLog>>
         ELSE Guarded_Finally(d, "handleAcceptRide",
                              IF found = "threw" THEN "catch" ELSE "return")
    /\ UNCHANGED <<isOnline, notGuard>>

\* the last await of handleAcceptRide, handleStartRide and handleCompleteRide
Guarded_LastAwait(d, h) ==
    /\ h \in {"handleAcceptRide", "handleStartRide", "handleCompleteRide"}
    /\ guardedCalls[d][h].pc = (IF h = "handleCompleteRide" THEN "deleteDoc" ELSE "updateDoc")
    /\ \E ok \in BOOLEAN : Guarded_Finally(d, h, IF ok THEN "success" ELSE "catch")
    /\ UNCHANGED <<isOnline, notGuard>>

\* handleCompleteRide: await setDoc(completedRideRef, ...)
Guarded_Complete_SetDoc(d) ==
    /\ guardedCalls[d]["handleCompleteRide"].pc = "setDoc"
    /\ \E ok \in BOOLEAN :
         IF ok
         THEN /\ guardedCalls' = [guardedCalls EXCEPT ![d]["handleCompleteRide"].pc = "deleteDoc"]
              /\ UNCHANGED <<isProcessing, clickLog>>
         ELSE Guarded_Finally(d, "handleCompleteRide", "catch")
    /\ UNCHANGED <<isOnline, notGuard>>

\* toggleOnlineStatus: await updateDoc(driverRef, updateData); the catch block
\* reads the document back before the finally block runs
toggleOnlineStatus_UpdateDoc(d) ==
    /\ guardedCalls[d]["toggleOnlineStatus"].pc = "updateDoc"
    /\ \E ok \in BOOLEAN :
         IF ok
         THEN /\ Guarded_Finally(d, "toggleOnlineStatus", "success")
              /\ isOnline' = [isOnline EXCEPT ![d] = ~@]
         ELSE /\ guardedCalls' = [guardedCalls EXCEPT ![d]["toggleOnlineStatus"].pc = "getDoc"]
              /\ UNCHANGED <<isProcessing, isOnline, clickLog>>
    /\ UNCHANGED notGuard

\* the getDoc of the catch block, with a catch of its own
toggleOnlineStatus_GetDoc(d) ==
    /\ guardedCalls[d]["toggleOnlineStatus"].pc = "getDoc"
    /\ Guarded_Finally(d, "toggleOnlineStatus", "catch_getDoc")
    /\ UNCHANGED <<isOnline, notGuard>>

\* the step an invocation in flight takes next
Guarded_Step(d, h) ==
    \/ h = "handleAcceptRide" /\ Guarded_Accept_GetDoc(d)
    \/ h = "handleCompleteRide" /\ Guarded_Complete_SetDoc(d)
    \/ Guarded_LastAwait(d, h)
    \/ h = "toggleOnlineStatus"
       /\ (toggleOnlineStatus_UpdateDoc(d) \/ toggleOnlineStatus_GetDoc(d))

GuardNext ==
    \E d \in Drivers :
        \/ \E h \in GuardedHandlers : Guarded_Call(d, h)
        \/ Guarded_Accept_GetDoc(d)
        \/ Guarded_Complete_SetDoc(d)
        \/ \E h \in GuardedHandlers : Guarded_LastAwait(d, h)
        \/ toggleOnlineStatus_UpdateDoc(d)
        \/ toggleOnlineStatus_GetDoc(d)

SpecGuard == CacheSpecInit /\ [][GuardNext]_vars

\* every database call settles
SpecGuardFair ==
    /\ SpecGuard
    /\ \A d \in Drivers : \A h \in GuardedHandlers : WF_vars(Guarded_Step(d, h))

\* the guarded handlers of driver d with a database operation in flight
OperationsInFlight(d) ==
    {h \in GuardedHandlers : guardedCalls[d][h].pc # "idle"}

\* C30: a guarded handler called while isProcessing is true does nothing; at
\* most one of them has a database operation in flight on a client, and
\* isProcessing is true exactly while one has; the flag always returns to false
C30_GuardHolds ==
    /\ [](\A d \in Drivers :
            /\ Cardinality(OperationsInFlight(d)) <= 1
            /\ isProcessing[d] <=> OperationsInFlight(d) # {})
    /\ [][\A d \in Drivers :
            isProcessing[d] /\ clickLog'[d].click # clickLog[d].click
            => /\ clickLog'[d].click = "returned"
               /\ guardedCalls'[d] = guardedCalls[d] /\ isProcessing'[d]]_vars
    /\ \A d \in Drivers : (isProcessing[d] ~> ~isProcessing[d])

\* a click was turned away while a handler was running, that handler has left
\* through its catch block, and the flag is back to false
C30_Witness ==
    \E d \in Drivers :
        /\ ~isProcessing[d]
        /\ OperationsInFlight(d) = {}
        /\ clickLog[d] = [click |-> "returned", exit |-> "catch"]

====
